---- MODULE Spec2Model ----
(***************************************************************************)
(* Project Kisan: the tool-orchestrating conversation loop                 *)
(* (src/kisan_agent.py), its HTTP front end (src/app.py) and the tool      *)
(* registry built at agent construction.                                   *)
(*                                                                         *)
(* src/app.py creates ONE process-wide agent and runs every POST /chat as  *)
(* agent.chat in a worker thread (asyncio.to_thread), so several turns may *)
(* run at once on the same agent, with no lock. Each turn is cut so that a  *)
(* step holds one access to the state the threads share (an append to the  *)
(* thought log, an append to the history, a request made from the live     *)
(* history) or one blocking call.                                          *)
(***************************************************************************)
EXTENDS Integers, Sequences, FiniteSets, TLC

\* ---------------------------------------------------------------- bounds
\* Number of POST /chat requests; each request is one turn.
MaxTurns == 2
\* Largest number of tool calls in one decision of the decision service.
MaxBatch == 2
\* Largest number of tool calls in a decision of a turn that runs while
\* another turn is in progress.
MaxOverlapBatch == 1
\* Largest number of times the scheduler leaves a call in progress for
\* another call, where two agents are run side by side.
MaxSwitches == 1
\* Number of reset_conversation calls.
MaxResets == 1
\* Largest number of decorated methods of a tool class (registration only).
MaxMethods == 2

\* ------------------------------------------------------------ vocabulary
\* Python's None.
Null == "None"

Reqs == 1..MaxTurns

\* End users (HTTP clients) that send requests; app.py keeps no session id.
Sessions == {"farmer_a", "farmer_b"}

\* self._create_system_prompt(): the fixed persona text.
system_prompt == "You are Kisan Mitra"

\* request.message of a POST /chat, one text per end user.
UserText(s) == IF s = "farmer_a" THEN "tomato price?" ELSE "yellow spots?"

\* ------------------------------------------------------- tool classes
ToolClasses == <<"AgroMarketAnalyserTool", "AgroDiseaseAnalyserTool", "AgroSchemeAnalyserTool">>

\* The methods of each tool class that carry the @tool_schema decorator.
DecoratedMethods(cls) ==
    CASE cls = "AgroMarketAnalyserTool"  -> <<"execute">>
      [] cls = "AgroDiseaseAnalyserTool" -> <<"get_quick_diagnosis">>
      [] OTHER                           -> <<>>

\* Whether the source of a tool class defines the class methods
\* get_method_names and get_tool_definitions: only AgroDiseaseAnalyserTool
\* does; a call on a class without them raises AttributeError.
HasIntrospection(cls) == cls = "AgroDiseaseAnalyserTool"

\* cls.get_method_names(): the names of the decorated methods.
get_method_names(cls) == DecoratedMethods(cls)

\* cls.get_tool_definitions(): one function schema per decorated method;
\* a definition is represented by its function name.
get_tool_definitions(cls) == DecoratedMethods(cls)

\* The declared parameters of a tool method: those without a default
\* (required) and all that the method accepts.
Signature(method_name) ==
    CASE method_name = "execute" ->
           [required |-> {},
            accepted |-> {"commodity", "state", "district", "market", "limit"}]
      [] method_name = "get_quick_diagnosis" ->
           [required |-> {"image_path"},
            accepted |-> {"image_path", "additional_context"}]
      [] OTHER -> [required |-> {}, accepted |-> {}]

\* for method_name in names: self.tool_registry[method_name] = (instance, method_name)
\* A plain dict store: a name that is already present is overwritten.
RECURSIVE RegisterNames(_, _, _)
RegisterNames(registry, names, instance) ==
    IF names = <<>> THEN registry
    ELSE LET n == Head(names)
             stored == [k \in (DOMAIN registry) \cup {n} |->
                          IF k = n THEN [instance |-> instance, method_name |-> n]
                          ELSE registry[k]]
         IN RegisterNames(stored, Tail(names), instance)

\* _register_tool_class(tool_class, instance) for a class exposing `names`.
\* The instance is identified by the name of its class.
_register_tool_class(registry, names, instance) ==
    RegisterNames(registry, names, instance)

EmptyRegistry == [k \in {} |-> Null]

\* The tool classes as src/mods/tools has them: their decorated methods and
\* whether they define the introspection class methods.
SourceDecorated == [k \in DOMAIN ToolClasses |-> DecoratedMethods(ToolClasses[k])]

SourceIntrospects == [k \in DOMAIN ToolClasses |-> HasIntrospection(ToolClasses[k])]

\* Tool classes that all define the introspection class methods, as
\* AgroDiseaseAnalyserTool does.
AllIntrospect == [k \in DOMAIN ToolClasses |-> TRUE]

\* __init__, lines 51-55, from the k-th _register_tool_class call on, for
\* tool classes of which has[k] tells whether class k defines
\* get_method_names: the call on a class without it raises AttributeError
\* (line 80) and leaves the registry as it stands.
RECURSIVE RegisterClasses(_, _, _)
RegisterClasses(registry, has, k) ==
    IF k > Len(ToolClasses) THEN [status |-> "done", registry |-> registry]
    ELSE IF ~has[k] THEN [status |-> "AttributeError", registry |-> registry]
    ELSE RegisterClasses(
            _register_tool_class(registry, get_method_names(ToolClasses[k]), ToolClasses[k]),
            has, k + 1)

\* __init__: what the three _register_tool_class calls end with.
ConstructedRegistry(has) == RegisterClasses(EmptyRegistry, has, 1)

\* _create_tool_definitions(): market, disease, scheme, concatenated; the
\* call on a class without get_tool_definitions raises AttributeError.
_create_tool_definitions(has) ==
    IF \E k \in DOMAIN ToolClasses : ~has[k]
    THEN [status |-> "AttributeError", definitions |-> <<>>]
    ELSE [status |-> "done",
          definitions |-> get_tool_definitions(ToolClasses[1])
                            \o get_tool_definitions(ToolClasses[2])
                            \o get_tool_definitions(ToolClasses[3])]

\* The registry and the definitions of an agent whose construction went
\* through, which takes tool classes that all define the class methods.
ServingRegistry == ConstructedRegistry(AllIntrospect).registry

ServingDefinitions == _create_tool_definitions(AllIntrospect).definitions

\* _initialize_conversation(): a single system message.
\* A message dict has the keys role and content and, only on some messages,
\* tool_calls and tool_call_id; an absent key is the empty tuple.
Absent == <<>>

SystemMessage ==
    [role |-> "system", content |-> system_prompt, tool_calls |-> Absent, tool_call_id |-> Absent]

_initialize_conversation_empty == <<>>

_initialize_conversation == <<SystemMessage>>

\* ---------------------------------------------------------- exceptions
\* A raised Python exception: its class and the parts of str(e).
Error(cls, msg) == [cls |-> cls, msg |-> msg]

NoError == Error(Null, <<>>)

\* --------------------------------------------- decision-service replies
\* tc.function.arguments: the JSON texts the decision service may send.
ArgsCommodity == "{\"commodity\": \"Tomato\"}"
ArgsImage == "{\"image_path\": \"leaf.jpg\"}"
ArgsMalformed == "{\"commodity\": "

\* json.loads(tc.function.arguments): the parsed object, represented by its
\* set of keys, or the JSONDecodeError it raises.
json_loads(text) ==
    CASE text = ArgsCommodity -> [ok |-> TRUE, keys |-> {"commodity"}, error |-> NoError]
      [] text = ArgsImage     -> [ok |-> TRUE, keys |-> {"image_path"}, error |-> NoError]
      [] OTHER -> [ok |-> FALSE, keys |-> {},
                   error |-> Error("JSONDecodeError", <<"Expecting value">>)]

\* ------------------------------------------------------------ messages
UserMessage(user_content) ==
    [role |-> "user", content |-> user_content, tool_calls |-> Absent, tool_call_id |-> Absent]

\* Mutant of AssistantToolCallsMessage: only the first tool call is kept.
AssistantToolCallsMessage_first_only(requests) ==
    [role |-> "assistant", content |-> Null, tool_calls |-> SubSeq(requests, 1, 1),
     tool_call_id |-> Absent]

\* {"role": "assistant", "content": None, "tool_calls": [...]}
AssistantToolCallsMessage(requests) ==
    [role |-> "assistant", content |-> Null, tool_calls |-> requests, tool_call_id |-> Absent]

\* {"role": "assistant", "content": text}
AssistantMessage(content) ==
    [role |-> "assistant", content |-> content, tool_calls |-> Absent, tool_call_id |-> Absent]

\* {"role": "tool", "tool_call_id": tool_call.id, "content": tool_result}
ToolMessage(tool_call, tool_result) ==
    [role |-> "tool", content |-> tool_result, tool_calls |-> Absent,
     tool_call_id |-> tool_call.id]

\* Mutant of HasToolCalls: the test accepts a reply without tool calls.
HasToolCalls_accepts_none(assistant_message) == Len(assistant_message.tool_calls) >= 0

\* if assistant_message.tool_calls: Python truthiness, None and [] are false.
HasToolCalls(assistant_message) == Len(assistant_message.tool_calls) > 0

\* Mutant of LoopDone: the loop stops one tool call early.
LoopDone_one_early(i, requests) == i >= Len(requests)

\* The for loop over assistant_message.tool_calls is over once the index
\* has passed the last element.
LoopDone(i, requests) == i > Len(requests)

\* -------------------------------------------------------- _execute_tool
\* An AgentThought, reduced to its step and the tool it is about.
Thought(step, tool) == [step |-> step, tool |-> tool]

\* _log_thought(): self.thought_log.append(thought), for one or more
\* consecutive calls.
_log_thought_replaces(log, thoughts) == thoughts

_log_thought(log, thoughts) == log \o thoughts

\* tool_instance, method_name = self.tool_registry[tool_name]
\* A missing key raises KeyError(tool_name); the lookup is outside the try.
LookupTool(registry, tool_name) ==
    IF tool_name \in DOMAIN registry
    THEN [ok |-> TRUE, entry |-> registry[tool_name], error |-> NoError]
    ELSE [ok |-> FALSE, entry |-> [instance |-> Null, method_name |-> Null],
          error |-> Error("KeyError", <<tool_name>>)]

\* tool_method(**arguments): Python binds the keyword arguments to the
\* declared parameters before the body runs, and raises TypeError if a
\* required one is missing or an unknown one is given.
BindsArguments(method_name, keys) ==
    /\ Signature(method_name).required \subseteq keys
    /\ keys \subseteq Signature(method_name).accepted

\* The except clauses of _execute_tool, applied to an exception of class
\* cls and text msg raised anywhere inside the try block.
HandleToolException(tool_name, method_name, cls, msg) ==
    CASE cls = "AttributeError" ->
           Error("Exception", <<"Method '", method_name, "' not found on tool">>)
      [] cls = "TypeError" ->
           Error("Exception", <<"Invalid parameters for ", tool_name, ": ">> \o msg)
      [] OTHER -> Error(cls, msg)

\* The exception a tool body raises under a given behaviour.
BodyException(behaviour) ==
    CASE behaviour = "raises_TypeError" ->
           Error("TypeError", <<"'<' not supported between instances">>)
      [] behaviour = "raises_AttributeError" ->
           Error("AttributeError", <<"'str' object has no attribute 'get'">>)
      [] behaviour = "raises_KeyError" -> Error("KeyError", <<"records">>)
      [] behaviour = "returns_unserializable" ->
           Error("TypeError", <<"Object is not JSON serializable">>)
      [] OTHER -> NoError

\* json.dumps(tool_result) of a serializable result of tool_name.
json_dumps(tool_name) == "result of " \o tool_name

\* ------------------------------------------- what the services may reply
\* The (function name, arguments) pairs a decision may request. The system
\* prompt names get_commodity_price, which no tool class defines.
ToolCallChoices ==
    { [name |-> "execute", arguments |-> ArgsCommodity],
      [name |-> "get_quick_diagnosis", arguments |-> ArgsImage],
      [name |-> "get_commodity_price", arguments |-> ArgsCommodity],
      [name |-> "execute", arguments |-> ArgsImage],
      [name |-> "execute", arguments |-> ArgsMalformed] }

\* A tool call of request r at position i of its batch; the id is unique.
ToolCall(r, i, choice) ==
    [id |-> <<r, i>>, name |-> choice.name, arguments |-> choice.arguments]

\* The choices that name a registered tool with arguments it accepts.
WellFormedChoices ==
    { c \in ToolCallChoices :
        /\ json_loads(c.arguments).ok
        /\ c.name \in DOMAIN ServingRegistry
        /\ BindsArguments(c.name, json_loads(c.arguments).keys) }

\* The well formed call explored at position i of a batch: a market lookup
\* at the odd positions, a diagnosis at the even ones.
WellFormedAt(i) ==
    IF i % 2 = 1 THEN [name |-> "execute", arguments |-> ArgsCommodity]
    ELSE [name |-> "get_quick_diagnosis", arguments |-> ArgsImage]

\* The batches of 1..MaxBatch tool calls explored, before ids are given:
\* every call well formed, or all but one (chat() reads no call after the
\* first one that fails).
BatchShapes ==
    UNION { { g \in [1..n -> ToolCallChoices] :
                /\ \A i \in 1..n : g[i] \in WellFormedChoices => g[i] = WellFormedAt(i)
                /\ Cardinality({i \in 1..n : g[i] \notin WellFormedChoices}) <= 1 }
            : n \in 1..MaxBatch }

Batches(r) == { [i \in DOMAIN g |-> ToolCall(r, i, g[i])] : g \in BatchShapes }

\* response.choices[0].message of the decision call: text with no tool calls
\* (tool_calls is None, the empty tuple here), or a batch of tool calls with
\* or without accompanying text.
DecisionReplies(r) ==
    { [content |-> "direct answer", tool_calls |-> <<>>] }
    \cup { [content |-> c, tool_calls |-> b] : c \in {Null, "plan text"}, b \in Batches(r) }

\* The replies explored for a request: all of DecisionReplies when one
\* caller's turns follow each other; when turns overlap, those of them
\* with at most MaxOverlapBatch tool calls.
RepliesExplored(r, overlap) ==
    IF overlap
    THEN { reply \in DecisionReplies(r) : Len(reply.tool_calls) <= MaxOverlapBatch }
    ELSE DecisionReplies(r)

\* final_response.choices[0].message.content of the generation call.
GenerationReplies == {"final answer"}

\* What a tool method does once it has been called with bound arguments.
ToolBehaviours ==
    {"returns", "returns_unserializable", "raises_TypeError",
     "raises_AttributeError", "raises_KeyError"}

\* ------------------------------------------------- chat() and /chat results
\* How agent.chat ended: it returned a value (the tool path returns the dict
\* {"role": "KisanAgent", "content": final_message}, the direct path returns
\* the bare string response_content) or it raised. `cause` records which
\* statement raised.
NoOutcome ==
    [status |-> "none", shape |-> Null, content |-> Null, error |-> NoError, cause |-> Null]

Returned(shape, content) ==
    [status |-> "returned", shape |-> shape, content |-> content, error |-> NoError,
     cause |-> Null]

Raised(error, cause) ==
    [status |-> "raised", shape |-> Null, content |-> Null, error |-> error, cause |-> cause]

NoResponse == [status |-> 0, response |-> Null, detail |-> <<>>]

\* The /chat handler around agent.chat:
\*   response = await asyncio.to_thread(agent.chat, request.message)
\*   return ChatResponse(response=response["content"])
\*   except Exception as e: raise HTTPException(status_code=500, detail=str(e))
\* Subscripting a str with "content" raises TypeError, which the handler
\* catches like any other exception.
EndpointResponse(chat_outcome) ==
    IF chat_outcome.status = "raised"
    THEN [status |-> 500, response |-> Null, detail |-> chat_outcome.error.msg]
    ELSE IF chat_outcome.shape = "dict"
    THEN [status |-> 200, response |-> chat_outcome.content, detail |-> <<>>]
    ELSE [status |-> 500, response |-> Null,
          detail |-> <<"string indices must be integers, not 'str'">>]

\* ---------------------------------------------------------------- state
VARIABLES
    tool_registry,          \* self.tool_registry: name -> (instance, method_name)
    tool_definitions,       \* self.tool_definitions
    conversation_history,   \* self.conversation_history of the one shared agent
    thought_log,            \* self.thought_log
    pc,                     \* where each request's worker thread stands
    assistant_message,      \* chat(): response.choices[0].message, per request
    idx,                    \* chat(): position of the for loop over tool_calls
    outcome,                \* how agent.chat ended, per request
    http,                   \* the HTTP response of /chat, per request
    session,                \* history: the end user who sent each request
    appended_by,            \* history: the request that appended each message
    submitted,              \* history: the messages and tools last sent to the LLM
    invoked,                \* history: batch positions whose tool method was called
    calls,                  \* history: LLM calls made by each request
    resets,                 \* number of reset_conversation calls so far
    reg_classes,            \* __init__: the method names each tool class exposes
    reg_done,               \* __init__: _register_tool_class calls completed
    introspects,            \* __init__: whether each tool class has the introspection class methods
    constructed,            \* __init__: "running", "done", or the exception class it raised
    expansion,              \* search_schemes: what the expansion service answers
    index,                  \* search_schemes: the scheme ids stored in the vector index
    search,                 \* search_schemes: the locals of one call and its result
    tool_run,               \* one call of a tool method: its inputs, position and outcome
    overlapping,            \* environment: requests arrive while others are served
    twins                   \* two agents of their own, given the same inputs turn by turn

vars ==
    <<tool_registry, tool_definitions, conversation_history, thought_log, pc,
      assistant_message, idx, outcome, http, session, appended_by, submitted,
      invoked, calls, resets, reg_classes, reg_done, introspects, constructed,
      expansion, index, search, tool_run, overlapping, twins>>

agent_vars ==
    <<tool_registry, tool_definitions, reg_classes, reg_done, introspects, constructed,
      expansion, index, search, tool_run, overlapping, twins>>

\* No reply of the decision service yet.
NoMessage == [content |-> Null, tool_calls |-> <<>>]

NothingSubmitted == [messages |-> <<>>, origins |-> <<>>, tools |-> Absent]

\* Positions of a request's thread inside agent.chat.
InTurn ==
    {"accepted", "user_appended", "calling", "deciding", "decided", "answering",
     "dispatching", "in_tool", "tool_returned", "generating", "synthesizing"}

\* search_schemes has not been called.
NoSearch == [pc |-> "idle"]

\* No tool method is being run on its own.
NoToolRun == [pc |-> "idle"]

\* No pair of agents is being compared.
NoTwins == [pc |-> "idle"]

\* No request has arrived.
NoRequests ==
    /\ thought_log = <<>>
    /\ pc = [r \in Reqs |-> "idle"]
    /\ assistant_message = [r \in Reqs |-> NoMessage]
    /\ idx = [r \in Reqs |-> 0]
    /\ outcome = [r \in Reqs |-> NoOutcome]
    /\ http = [r \in Reqs |-> NoResponse]
    /\ session = [r \in Reqs |-> Null]
    /\ submitted = [r \in Reqs |-> NothingSubmitted]
    /\ invoked = [r \in Reqs |-> <<>>]
    /\ calls = [r \in Reqs |-> [decide |-> 0, generate |-> 0]]
    /\ resets = 0

\* No agent is being constructed or served.
NoAgent ==
    /\ reg_classes = SourceDecorated
    /\ reg_done = 0
    /\ introspects = SourceIntrospects
    /\ constructed = "none"
    /\ tool_registry = EmptyRegistry
    /\ tool_definitions = <<>>
    /\ conversation_history = <<>>
    /\ appended_by = <<>>

\* app.py is imported and line 15, agent = ProjectKisanAgent(), is about to
\* run; no request can arrive before it has returned. The tool classes have
\* the decorated methods of the source; whether each defines the
\* introspection class methods is left open, the source's own classes
\* (only AgroDiseaseAnalyserTool does) included.
Init ==
    /\ reg_classes = SourceDecorated
    /\ reg_done = 0
    /\ introspects \in [DOMAIN ToolClasses -> BOOLEAN]
    /\ constructed = "new"
    /\ tool_registry = EmptyRegistry
    /\ tool_definitions = <<>>
    /\ conversation_history = <<>>
    /\ appended_by = <<>>
    /\ overlapping \in BOOLEAN
    /\ twins = NoTwins
    /\ expansion = Null
    /\ index = {}
    /\ search = NoSearch
    /\ tool_run = NoToolRun
    /\ NoRequests

\* What __init__ finds when it builds its clients and tool instances.
Environments == {"ready", "no_openai_key", "no_data_gov_key", "weaviate_down"}

\* __init__, lines 42-49: the OpenAI client needs OPENAI_API_KEY,
\* AgroMarketAnalyserTool() raises ValueError without DATA_GOV_IN_API_KEY,
\* AgroSchemeAnalyserTool() re-raises the error of a failed weaviate
\* connection. What the construction goes on as, or the exception class
\* that leaves __init__.
ToolInstances(environment) ==
    CASE environment = "no_openai_key" -> "OpenAIError"
      [] environment = "no_data_gov_key" -> "ValueError"
      [] environment = "weaviate_down" -> "WeaviateStartUpError"
      [] OTHER -> "running"

\* __init__, lines 42-52: the clients and the tool instances are built and
\* the registry starts empty.
InitializeTools(environment) ==
    /\ constructed = "new"
    /\ constructed' = ToolInstances(environment)
    /\ UNCHANGED <<tool_registry, tool_definitions, conversation_history, thought_log, pc,
                   assistant_message, idx, outcome, http, session, appended_by, submitted,
                   invoked, calls, resets, reg_classes, reg_done, introspects, expansion,
                   index, search, tool_run, overlapping, twins>>

\* __init__, lines 53-55: the next _register_tool_class call. On a class
\* without get_method_names, line 80 raises AttributeError, which leaves
\* __init__: no agent is constructed.
RegisterToolClass ==
    /\ constructed = "running"
    /\ reg_done < Len(ToolClasses)
    /\ IF introspects[reg_done + 1]
       THEN /\ tool_registry' = _register_tool_class(tool_registry, reg_classes[reg_done + 1],
                                                       ToolClasses[reg_done + 1])
            /\ reg_done' = reg_done + 1
            /\ UNCHANGED constructed
       ELSE /\ constructed' = "AttributeError"
            /\ UNCHANGED <<tool_registry, reg_done>>
    /\ UNCHANGED <<tool_definitions, conversation_history, thought_log, pc,
                   assistant_message, idx, outcome, http, session, appended_by, submitted,
                   invoked, calls, resets, reg_classes, introspects, expansion, index,
                   search, tool_run, overlapping, twins>>

\* __init__, lines 57-70, after the three registrations: the history is
\* initialised and the tool definitions are collected from the three classes
\* (each of them has get_tool_definitions, or line 80 had raised before).
\* A definition is listed for every decorated method, as a name is.
FinishConstruction ==
    /\ constructed = "running"
    /\ reg_done = Len(ToolClasses)
    /\ conversation_history' = _initialize_conversation
    /\ appended_by' = <<0>>
    /\ tool_definitions' = reg_classes[1] \o reg_classes[2] \o reg_classes[3]
    /\ constructed' = "done"
    /\ UNCHANGED <<tool_registry, thought_log, pc, assistant_message, idx, outcome, http,
                   session, submitted, invoked, calls, resets, reg_classes, reg_done,
                   introspects, expansion, index, search, tool_run, overlapping, twins>>

\* chat(), lines 241-247: the text of the user message; with an image path
\* a note naming the image is added to it.
UserContent(user_message, image_path) ==
    IF image_path = Null \/ image_path = "" THEN user_message
    ELSE user_message \o "\n[Image uploaded: " \o image_path \o "]"

\* app.py line 26 and chat(), lines 234-239: the handler of a request of
\* end user s calls agent.chat(request.message) in a worker thread, which
\* logs the new user message.
ChatStart(r, s) ==
    /\ constructed = "done"
    /\ pc[r] = "idle"
    /\ \A q \in Reqs : q < r => pc[q] # "idle"
    /\ r = 1 => s = "farmer_a"
    /\ overlapping \/ \A q \in Reqs : pc[q] \in {"idle", "responded"}
    /\ thought_log' = _log_thought(thought_log, <<Thought("New User Message", Null)>>)
    /\ session' = [session EXCEPT ![r] = s]
    /\ pc' = [pc EXCEPT ![r] = "accepted"]
    /\ UNCHANGED <<agent_vars, conversation_history, appended_by, assistant_message, idx,
                   outcome, http, submitted, invoked, calls, resets>>

\* chat(), lines 241-254: the user message is appended to the history; the
\* handler passes no image path.
AppendUserMessage(r) ==
    /\ pc[r] = "accepted"
    /\ conversation_history' =
           Append(conversation_history, UserMessage(UserContent(UserText(session[r]), Null)))
    /\ appended_by' = Append(appended_by, r)
    /\ pc' = [pc EXCEPT ![r] = "user_appended"]
    /\ UNCHANGED <<agent_vars, thought_log, assistant_message, idx, outcome, http, session,
                   submitted, invoked, calls, resets>>

\* chat(), lines 257-262: the call of the decision service is logged.
LogCallingLLM(r) ==
    /\ pc[r] = "user_appended"
    /\ thought_log' = _log_thought(thought_log, <<Thought("Calling LLM", Null)>>)
    /\ pc' = [pc EXCEPT ![r] = "calling"]
    /\ UNCHANGED <<agent_vars, conversation_history, appended_by, assistant_message, idx,
                   outcome, http, session, submitted, invoked, calls, resets>>

\* chat(), lines 264-269: the decision request is made from the history as
\* it is now (create() is handed the list itself) and the tool definitions.
SendDecision(r) ==
    /\ pc[r] = "calling"
    /\ submitted' = [submitted EXCEPT ![r] =
           [messages |-> conversation_history, origins |-> appended_by,
            tools |-> tool_definitions]]
    /\ calls' = [calls EXCEPT ![r].decide = @ + 1]
    /\ pc' = [pc EXCEPT ![r] = "deciding"]
    /\ UNCHANGED <<agent_vars, conversation_history, thought_log, appended_by,
                   assistant_message, idx, outcome, http, session, invoked, resets>>

\* Mutant of DecideFails: the failed turn takes the last message back out
\* of the history.
DecideFails_rolls_back(r) ==
    /\ pc[r] = "deciding"
    /\ outcome' = [outcome EXCEPT ![r] =
           Raised(Error("APIError", <<"decision service failed">>), "decide")]
    /\ pc' = [pc EXCEPT ![r] = "exited"]
    /\ conversation_history' = SubSeq(conversation_history, 1, Len(conversation_history) - 1)
    /\ appended_by' = SubSeq(appended_by, 1, Len(appended_by) - 1)
    /\ UNCHANGED <<agent_vars, thought_log, assistant_message, idx,
                   http, session, submitted, invoked, calls, resets>>

\* chat(), line 264: the decision call raises; nothing in chat() catches it.
DecideFails(r) ==
    /\ pc[r] = "deciding"
    /\ outcome' = [outcome EXCEPT ![r] =
           Raised(Error("APIError", <<"decision service failed">>), "decide")]
    /\ pc' = [pc EXCEPT ![r] = "exited"]
    /\ UNCHANGED <<agent_vars, conversation_history, thought_log, assistant_message, idx,
                   http, session, appended_by, submitted, invoked, calls, resets>>

\* chat(), lines 271-291: the decision carries tool calls, which is logged.
DecideTools(r, reply) ==
    /\ pc[r] = "deciding"
    /\ HasToolCalls(reply)
    /\ assistant_message' = [assistant_message EXCEPT ![r] = reply]
    /\ thought_log' = _log_thought(thought_log, <<Thought("Tool Usage Decision", Null)>>)
    /\ pc' = [pc EXCEPT ![r] = "decided"]
    /\ UNCHANGED <<agent_vars, conversation_history, appended_by, idx, outcome, http,
                   session, submitted, invoked, calls, resets>>

\* chat(), lines 293-311: the assistant message with the whole batch is
\* appended and the for loop is entered.
AppendToolCalls(r) ==
    /\ pc[r] = "decided"
    /\ conversation_history' =
           Append(conversation_history,
                  AssistantToolCallsMessage(assistant_message[r].tool_calls))
    /\ appended_by' = Append(appended_by, r)
    /\ idx' = [idx EXCEPT ![r] = 1]
    /\ pc' = [pc EXCEPT ![r] = "dispatching"]
    /\ UNCHANGED <<agent_vars, thought_log, assistant_message, outcome, http, session,
                   submitted, invoked, calls, resets>>

\* chat(), lines 348-355: no tool calls, which is logged.
DecideDirect(r, reply) ==
    /\ pc[r] = "deciding"
    /\ ~HasToolCalls(reply)
    /\ assistant_message' = [assistant_message EXCEPT ![r] = reply]
    /\ thought_log' = _log_thought(thought_log, <<Thought("Direct Response", Null)>>)
    /\ pc' = [pc EXCEPT ![r] = "answering"]
    /\ UNCHANGED <<agent_vars, conversation_history, appended_by, idx, outcome, http,
                   session, submitted, invoked, calls, resets>>

\* chat(), lines 357-365: the assistant message is appended and
\* response_content, a bare string, is returned.
AppendDirectAnswer(r) ==
    /\ pc[r] = "answering"
    /\ conversation_history' =
           Append(conversation_history, AssistantMessage(assistant_message[r].content))
    /\ appended_by' = Append(appended_by, r)
    /\ outcome' = [outcome EXCEPT ![r] = Returned("str", assistant_message[r].content)]
    /\ pc' = [pc EXCEPT ![r] = "exited"]
    /\ UNCHANGED <<agent_vars, thought_log, assistant_message, idx, http, session,
                   submitted, invoked, calls, resets>>

\* One iteration of the for loop, up to the call of the tool method
\* (lines 312-316 and _execute_tool lines 193-206): parse the arguments, log,
\* look the tool up and bind the arguments. Gives the thoughts logged and
\* either the exception that leaves _execute_tool or the method invoked.
BeginToolCall(registry, tool_call) ==
    LET parsed == json_loads(tool_call.arguments)
        found == LookupTool(registry, tool_call.name)
        executing == <<Thought("Executing Tool", tool_call.name)>>
    IN  IF ~parsed.ok
        THEN [invoked |-> FALSE, logged |-> <<>>, error |-> parsed.error,
              cause |-> "json_loads"]
        ELSE IF ~found.ok
        THEN [invoked |-> FALSE, logged |-> executing, error |-> found.error,
              cause |-> "lookup"]
        ELSE IF ~BindsArguments(found.entry.method_name, parsed.keys)
        THEN [invoked |-> FALSE, logged |-> executing,
              error |-> HandleToolException(tool_call.name, found.entry.method_name,
                            "TypeError", <<"missing or unexpected keyword argument">>),
              cause |-> "bind"]
        ELSE [invoked |-> TRUE, logged |-> executing, error |-> NoError, cause |-> Null]

\* Mutant of _log_thought_print: in debug mode the print fails whatever
\* the details are.
_log_thought_print_fails(debug_mode, details_serializable) ==
    IF debug_mode THEN Error("OSError", <<"cannot write to stdout">>) ELSE NoError

\* _log_thought(), lines 175-180, after the thought is appended: in debug
\* mode the thought is printed, its details through json.dumps, which raises
\* TypeError on details it cannot serialize; otherwise nothing is done.
_log_thought_print(debug_mode, details_serializable) ==
    IF debug_mode /\ ~details_serializable
    THEN Error("TypeError", <<"Object is not JSON serializable">>)
    ELSE NoError

\* The rest of _execute_tool (lines 206-219) once the tool method has been
\* entered, for an agent with the given debug_mode: the body returns or
\* raises, the completion is logged with the result as its details, and the
\* result is serialized; exceptions pass through the except clauses. The
\* two json.dumps calls (line 180 and line 213) are both inside the try.
EndToolCallIn(debug_mode, registry, tool_call, behaviour) ==
    LET method_name == registry[tool_call.name].method_name
        exc == BodyException(behaviour)
        complete == <<Thought("Tool Execution Complete", tool_call.name)>>
        printed == _log_thought_print(debug_mode, behaviour # "returns_unserializable")
    IN  IF behaviour \in {"returns", "returns_unserializable"} /\ printed # NoError
        THEN [ok |-> FALSE, logged |-> complete, result |-> Null,
              error |-> HandleToolException(tool_call.name, method_name,
                                            printed.cls, printed.msg),
              cause |-> "json_dumps"]
        ELSE IF behaviour = "returns"
        THEN [ok |-> TRUE, logged |-> complete, result |-> json_dumps(tool_call.name),
              error |-> NoError, cause |-> Null]
        ELSE IF behaviour = "returns_unserializable"
        THEN [ok |-> FALSE, logged |-> complete, result |-> Null,
              error |-> HandleToolException(tool_call.name, method_name, exc.cls, exc.msg),
              cause |-> "json_dumps"]
        ELSE [ok |-> FALSE, logged |-> <<>>, result |-> Null,
              error |-> HandleToolException(tool_call.name, method_name, exc.cls, exc.msg),
              cause |-> "body"]

\* app.py, line 15: the served agent is built with the default
\* debug_mode=True.
EndToolCall(registry, tool_call, behaviour) ==
    EndToolCallIn(TRUE, registry, tool_call, behaviour)

\* Mutant of AfterToolError: the loop catches the exception and goes on
\* with the next tool call.
AfterToolError_continue(i) == [pc |-> "dispatching", idx |-> i + 1]

\* chat() has no try around the for loop: an exception raised in an
\* iteration leaves the loop and chat() at once.
AfterToolError(i) == [pc |-> "exited", idx |-> i]

\* chat(), lines 311-316, for the tool call at idx[r]: fails before the tool
\* method is entered, or enters it (a blocking call).
DispatchCall(r) ==
    /\ pc[r] = "dispatching"
    /\ ~LoopDone(idx[r], assistant_message[r].tool_calls)
    /\ LET tool_call == assistant_message[r].tool_calls[idx[r]]
           begun == BeginToolCall(tool_registry, tool_call)
       IN  /\ thought_log' = _log_thought(thought_log, begun.logged)
           /\ IF begun.invoked
              THEN /\ invoked' = [invoked EXCEPT ![r] = Append(@, idx[r])]
                   /\ pc' = [pc EXCEPT ![r] = "in_tool"]
                   /\ UNCHANGED <<outcome, idx>>
              ELSE /\ outcome' = [outcome EXCEPT ![r] = Raised(begun.error, begun.cause)]
                   /\ pc' = [pc EXCEPT ![r] = AfterToolError(idx[r]).pc]
                   /\ idx' = [idx EXCEPT ![r] = AfterToolError(idx[r]).idx]
                   /\ UNCHANGED invoked
    /\ UNCHANGED <<agent_vars, conversation_history, assistant_message, http, session,
                   appended_by, submitted, calls, resets>>

\* _execute_tool, lines 206-219: the tool method comes back; its completion
\* is logged and the result serialized, or the exception leaves chat().
DispatchReturn(r, behaviour) ==
    /\ pc[r] = "in_tool"
    /\ LET tool_call == assistant_message[r].tool_calls[idx[r]]
           ended == EndToolCall(tool_registry, tool_call, behaviour)
       IN  /\ thought_log' = _log_thought(thought_log, ended.logged)
           /\ IF ended.ok
              THEN /\ pc' = [pc EXCEPT ![r] = "tool_returned"]
                   /\ UNCHANGED <<outcome, idx>>
              ELSE /\ outcome' = [outcome EXCEPT ![r] = Raised(ended.error, ended.cause)]
                   /\ pc' = [pc EXCEPT ![r] = AfterToolError(idx[r]).pc]
                   /\ idx' = [idx EXCEPT ![r] = AfterToolError(idx[r]).idx]
    /\ UNCHANGED <<agent_vars, conversation_history, appended_by, assistant_message, http,
                   session, submitted, invoked, calls, resets>>

\* chat(), lines 318-323: the tool message with the serialized result is
\* appended and the loop moves to the next tool call.
AppendToolMessage(r) ==
    /\ pc[r] = "tool_returned"
    /\ LET tool_call == assistant_message[r].tool_calls[idx[r]]
       IN  conversation_history' =
              Append(conversation_history, ToolMessage(tool_call, json_dumps(tool_call.name)))
    /\ appended_by' = Append(appended_by, r)
    /\ idx' = [idx EXCEPT ![r] = @ + 1]
    /\ pc' = [pc EXCEPT ![r] = "dispatching"]
    /\ UNCHANGED <<agent_vars, thought_log, assistant_message, outcome, http, session,
                   submitted, invoked, calls, resets>>

\* chat(), lines 325-331: the loop is over, which is logged.
Synthesize(r) ==
    /\ pc[r] = "dispatching"
    /\ LoopDone(idx[r], assistant_message[r].tool_calls)
    /\ thought_log' = _log_thought(thought_log, <<Thought("Generating Final Response", Null)>>)
    /\ pc' = [pc EXCEPT ![r] = "generating"]
    /\ UNCHANGED <<agent_vars, conversation_history, assistant_message, idx, outcome, http,
                   session, appended_by, submitted, invoked, calls, resets>>

\* chat(), lines 333-336: the generation request is made from the history
\* as it is now, without tool definitions.
SendGeneration(r) ==
    /\ pc[r] = "generating"
    /\ submitted' = [submitted EXCEPT ![r] =
           [messages |-> conversation_history, origins |-> appended_by,
            tools |-> Absent]]
    /\ calls' = [calls EXCEPT ![r].generate = @ + 1]
    /\ pc' = [pc EXCEPT ![r] = "synthesizing"]
    /\ UNCHANGED <<agent_vars, conversation_history, thought_log, assistant_message, idx,
                   outcome, http, session, appended_by, invoked, resets>>

\* chat(), lines 338-346: append the final assistant message and return the
\* dict {"role": "KisanAgent", "content": final_message}.
GenerateReturns(r, final_message) ==
    /\ pc[r] = "synthesizing"
    /\ conversation_history' = Append(conversation_history, AssistantMessage(final_message))
    /\ appended_by' = Append(appended_by, r)
    /\ outcome' = [outcome EXCEPT ![r] = Returned("dict", final_message)]
    /\ pc' = [pc EXCEPT ![r] = "exited"]
    /\ UNCHANGED <<agent_vars, thought_log, assistant_message, idx, http, session,
                   submitted, invoked, calls, resets>>

\* Mutant of GenerateFails: the failed generation call is caught and the
\* request is sent again.
GenerateFails_retries(r) ==
    /\ pc[r] = "synthesizing"
    /\ pc' = [pc EXCEPT ![r] = "generating"]
    /\ UNCHANGED <<agent_vars, conversation_history, thought_log, assistant_message, idx,
                   outcome, http, session, appended_by, submitted, invoked, calls, resets>>

\* chat(), line 333: the generation call raises; nothing in chat() catches it.
GenerateFails(r) ==
    /\ pc[r] = "synthesizing"
    /\ outcome' = [outcome EXCEPT ![r] =
           Raised(Error("APIError", <<"generation service failed">>), "generate")]
    /\ pc' = [pc EXCEPT ![r] = "exited"]
    /\ UNCHANGED <<agent_vars, conversation_history, thought_log, assistant_message, idx,
                   http, session, appended_by, submitted, invoked, calls, resets>>

\* app.py, lines 26-31: agent.chat is back in the handler, which answers.
Endpoint(r) ==
    /\ pc[r] = "exited"
    /\ http' = [http EXCEPT ![r] = EndpointResponse(outcome[r])]
    /\ pc' = [pc EXCEPT ![r] = "responded"]
    /\ UNCHANGED <<agent_vars, conversation_history, thought_log, assistant_message, idx,
                   outcome, session, appended_by, submitted, invoked, calls, resets>>

\* What reset_conversation() makes of a history h and a thought log: the
\* thought is appended to the old log, the history is initialised again, and
\* self.thought_log is bound to a new empty list.
ResetResult_keeps_log(h, log) ==
    LET logged == _log_thought(log, <<Thought("Conversation Reset", Null)>>)
    IN [conversation_history |-> _initialize_conversation, thought_log |-> logged]

ResetResult(h, log) ==
    LET logged == _log_thought(log, <<Thought("Conversation Reset", Null)>>)
    IN [conversation_history |-> _initialize_conversation, thought_log |-> SubSeq(logged, 1, 0)]

\* Mutant of reset_conversation: the reset also empties the advertised
\* tool definitions.
reset_conversation_clears_definitions ==
    /\ constructed = "done"
    /\ ~overlapping
    /\ \A r \in Reqs : pc[r] \in {"idle", "responded"}
    /\ resets < MaxResets
    /\ conversation_history' = ResetResult(conversation_history, thought_log).conversation_history
    /\ appended_by' = <<0>>
    /\ thought_log' = ResetResult(conversation_history, thought_log).thought_log
    /\ resets' = resets + 1
    /\ tool_definitions' = <<>>
    /\ UNCHANGED <<tool_registry, reg_classes, reg_done, introspects, constructed,
                   expansion, index, search, tool_run, overlapping, twins, pc,
                   assistant_message, idx, outcome, http, session,
                   submitted, invoked, calls>>

\* reset_conversation(), lines 367-377: log, start the history again from
\* the system message, and empty the thought log. No endpoint of app.py
\* calls it: it is called by a single caller of the agent, between turns.
reset_conversation ==
    /\ constructed = "done"
    /\ ~overlapping
    /\ \A r \in Reqs : pc[r] \in {"idle", "responded"}
    /\ resets < MaxResets
    /\ conversation_history' = ResetResult(conversation_history, thought_log).conversation_history
    /\ appended_by' = <<0>>
    /\ thought_log' = ResetResult(conversation_history, thought_log).thought_log
    /\ resets' = resets + 1
    /\ UNCHANGED <<agent_vars, pc, assistant_message, idx, outcome, http, session,
                   submitted, invoked, calls>>

Next ==
    \/ \E environment \in Environments : InitializeTools(environment)
    \/ RegisterToolClass
    \/ FinishConstruction
    \/ \E r \in Reqs, s \in Sessions : ChatStart(r, s)
    \/ \E r \in Reqs : AppendUserMessage(r)
    \/ \E r \in Reqs : LogCallingLLM(r)
    \/ \E r \in Reqs : SendDecision(r)
    \/ \E r \in Reqs : DecideFails(r)
    \/ \E r \in Reqs :
          /\ pc[r] = "deciding"
          /\ \E reply \in RepliesExplored(r, overlapping) : DecideTools(r, reply)
    \/ \E r \in Reqs : AppendToolCalls(r)
    \/ \E r \in Reqs :
          /\ pc[r] = "deciding"
          /\ \E reply \in RepliesExplored(r, overlapping) : DecideDirect(r, reply)
    \/ \E r \in Reqs : AppendDirectAnswer(r)
    \/ \E r \in Reqs : DispatchCall(r)
    \/ \E r \in Reqs, behaviour \in ToolBehaviours : DispatchReturn(r, behaviour)
    \/ \E r \in Reqs : AppendToolMessage(r)
    \/ \E r \in Reqs : Synthesize(r)
    \/ \E r \in Reqs : SendGeneration(r)
    \/ \E r \in Reqs, final_message \in GenerationReplies : GenerateReturns(r, final_message)
    \/ \E r \in Reqs : GenerateFails(r)
    \/ \E r \in Reqs : Endpoint(r)
    \/ reset_conversation

Spec == Init /\ [][Next]_vars

\* ------------------------------------------------ registration, on its own
\* The decorated method names a tool class may expose: get_method_names
\* walks inspect.getmembers, which lists each name once, sorted by name.
MethodNames == <<"execute", "get_quick_diagnosis", "search_schemes">>

RECURSIVE SortedNames(_, _)
SortedNames(chosen, k) ==
    IF k > Len(MethodNames) THEN <<>>
    ELSE (IF MethodNames[k] \in chosen THEN <<MethodNames[k]>> ELSE <<>>)
            \o SortedNames(chosen, k + 1)

MethodNameLists ==
    { SortedNames(chosen, 1) :
        chosen \in { c \in SUBSET {MethodNames[k] : k \in DOMAIN MethodNames} :
                       Cardinality(c) <= MaxMethods } }

\* __init__ at line 52: an empty registry, before the three
\* _register_tool_class calls, for tool classes with any decorated methods,
\* with or without the introspection class methods.
InitReg ==
    /\ reg_classes \in [DOMAIN ToolClasses -> MethodNameLists]
    /\ introspects \in [DOMAIN ToolClasses -> BOOLEAN]
    /\ constructed = "running"
    /\ reg_done = 0
    /\ tool_registry = EmptyRegistry
    /\ tool_definitions = <<>>
    /\ conversation_history = <<>>
    /\ appended_by = <<>>
    /\ overlapping = FALSE
    /\ twins = NoTwins
    /\ expansion = Null
    /\ index = {}
    /\ search = NoSearch
    /\ tool_run = NoToolRun
    /\ NoRequests

NextReg == RegisterToolClass \/ FinishConstruction

SpecReg == InitReg /\ [][NextReg]_vars

\* ------------------------------------------------- reading the history
\* The messages of the history paired with the request that appended them.
Tagged == [j \in DOMAIN conversation_history |->
             [message |-> conversation_history[j], by |-> appended_by[j]]]

\* The messages request r appended, in history order.
MessagesBy(r) ==
    LET mine == SelectSeq(Tagged, LAMBDA e : e.by = r)
    IN [j \in DOMAIN mine |-> mine[j].message]

\* The tool messages request r appended, in history order.
ToolMessagesBy(r) == SelectSeq(MessagesBy(r), LAMBDA m : m.role = "tool")

\* The ids of the first n tool calls of a batch, in request order.
BatchIds(requests, n) == [i \in 1..n |-> requests[i].id]

\* No turn is inside agent.chat.
Quiescent == \A r \in Reqs : pc[r] \notin InTurn

\* The turn of request r got a decision (the decision call did not raise).
Decided(r) ==
    /\ pc[r] \in {"decided", "answering", "dispatching", "in_tool", "tool_returned",
                 "generating", "synthesizing", "exited", "responded"}
    /\ outcome[r].cause # "decide"

\* The causes of a failed tool invocation inside the for loop.
DispatchCauses == {"json_loads", "lookup", "bind", "body", "json_dumps"}

\* ----------------------------------------------------------------- C1
\* Every tool message answers a request of the nearest preceding assistant
\* message, and an assistant message with n tool calls is followed by
\* exactly n tool messages, in request order.
ToolMessagesMatchBatches(h) ==
    /\ \A j \in DOMAIN h :
         h[j].role = "tool" =>
           \E a \in 1..(j - 1) :
              /\ h[a].role = "assistant"
              /\ \A k \in (a + 1)..(j - 1) : h[k].role # "assistant"
              /\ h[j].tool_call_id \in {h[a].tool_calls[i].id : i \in DOMAIN h[a].tool_calls}
    /\ \A a \in DOMAIN h :
         (h[a].role = "assistant" /\ h[a].tool_calls # Absent) =>
           LET n == Len(h[a].tool_calls)
           IN /\ a + n <= Len(h)
              /\ \A i \in 1..n : /\ h[a + i].role = "tool"
                                 /\ h[a + i].tool_call_id = h[a].tool_calls[i].id
              /\ (a + n + 1 <= Len(h)) => h[a + n + 1].role # "tool"

\* C1: whenever no turn is in progress (after any sequence of completed or
\* failed turns and resets), every tool message of the history carries an id
\* of the nearest preceding assistant batch and each batch is followed by
\* as many tool messages as it has requests, in the same order.
C1_ToolMessagesMatchBatches == Quiescent => ToolMessagesMatchBatches(conversation_history)

\* ----------------------------------------------------------------- C2
\* The messages of each request are contiguous in the history.
Contiguous ==
    \A r \in Reqs : \A i, j, k \in DOMAIN appended_by :
        (i < j /\ j < k /\ appended_by[i] = r /\ appended_by[k] = r) => appended_by[j] = r

\* C2: at most one turn is inside agent.chat on the shared agent at any
\* time, and the messages appended by a turn are contiguous in the history.
C2_TurnsSerialized ==
    /\ Cardinality({r \in Reqs : pc[r] \in InTurn}) <= 1
    /\ Contiguous

\* ----------------------------------------------------------------- C3
\* C3: the conversation a request submits to the decision or generation
\* service holds, besides the system message, only messages appended while
\* serving requests of the same end user.
C3_NoMessageOfAnotherSession ==
    \A r \in Reqs : \A j \in DOMAIN submitted[r].origins :
        submitted[r].origins[j] # 0 => session[submitted[r].origins[j]] = session[r]

\* ----------------------------------------------------------------- C4
\* C4: once /chat has answered, a turn that returned gives status 200 with
\* the text of the turn's final assistant message, and status 500 is given
\* only for a turn that raised.
C4_EndpointReturnsTurnText ==
    \A r \in Reqs :
        pc[r] = "responded" =>
          /\ outcome[r].status = "returned" =>
                (http[r].status = 200 /\ http[r].response = outcome[r].content)
          /\ http[r].status = 500 => outcome[r].status = "raised"

\* ----------------------------------------------------------------- C5
\* C5: in a turn whose decision holds n >= 1 tool calls, the tool methods
\* are entered one at a time in request order, each at most once; the i-th
\* tool message is in the history before the (i+1)-th tool is entered; when
\* the generation request is sent all n tools have been entered once and
\* the turn's n tool messages are in the history in request order; and the
\* generation service is called once in a turn that returns, never twice.
C5_SequentialDispatchThenOneSynthesis ==
    \A r \in Reqs :
        LET requests == assistant_message[r].tool_calls
            n == Len(requests)
            entered == Len(invoked[r])
            answered == ToolMessagesBy(r)
        IN  (Decided(r) /\ n >= 1) =>
              /\ invoked[r] = [i \in 1..entered |-> i]
              /\ entered <= n
              /\ calls[r].generate <= 1
              /\ pc[r] \in InTurn \cup {"exited"} =>
                   /\ Len(answered) <= n
                   /\ [i \in DOMAIN answered |-> answered[i].tool_call_id]
                         = BatchIds(requests, Len(answered))
                   /\ entered \in {Len(answered), Len(answered) + 1}
              /\ pc[r] \in {"in_tool", "tool_returned"} =>
                   (entered = idx[r] /\ Len(answered) = idx[r] - 1)
              /\ calls[r].generate = 1 => entered = n
              /\ pc[r] = "synthesizing" =>
                   (calls[r].generate = 1 /\ Len(answered) = n)
              /\ outcome[r].status = "returned" =>
                   (calls[r].generate = 1 /\ entered = n)

\* A two-tool batch has been dispatched and the generation request is out.
C5_Witness ==
    \E r \in Reqs :
        /\ pc[r] = "synthesizing"
        /\ Len(assistant_message[r].tool_calls) = 2
        /\ Len(ToolMessagesBy(r)) = 2

\* ----------------------------------------------------------------- C6
\* C6: a turn whose decision holds text and no tool calls enters no tool,
\* never calls the generation service, calls the decision service once,
\* returns the decision's text, and has appended exactly one user message
\* followed by one assistant message holding that text.
C6_DirectAnswerTurn ==
    \A r \in Reqs :
        (Decided(r) /\ Len(assistant_message[r].tool_calls) = 0) =>
          /\ pc[r] \in {"answering", "exited", "responded"}
          /\ pc[r] # "answering" =>
               /\ outcome[r].status = "returned"
               /\ outcome[r].content = assistant_message[r].content
          /\ invoked[r] = <<>>
          /\ calls[r] = [decide |-> 1, generate |-> 0]
          /\ pc[r] = "exited" =>
               MessagesBy(r) = <<UserMessage(UserText(session[r])),
                                 AssistantMessage(assistant_message[r].content)>>

\* A direct-answer turn has returned.
C6_Witness ==
    \E r \in Reqs :
        /\ pc[r] = "exited"
        /\ Decided(r)
        /\ Len(assistant_message[r].tool_calls) = 0
        /\ outcome[r].content = "direct answer"

\* ----------------------------------------------------------------- C7
\* C7: when the invocation of the k-th tool call of a batch fails, the turn
\* raises, no tool call after the k-th is entered, the generation service is
\* not called, the turn's tool messages are those of the k-1 calls before
\* it, no final assistant message is appended, and /chat answers 500 with
\* the text of that error.
C7_FailFast ==
    \A r \in Reqs :
        outcome[r].cause \in DispatchCauses =>
          LET k == idx[r]
          IN /\ pc[r] \in {"exited", "responded"}
             /\ outcome[r].status = "raised"
             /\ outcome[r].error # NoError
             /\ \A i \in DOMAIN invoked[r] : invoked[r][i] <= k
             /\ calls[r].generate = 0
             /\ pc[r] = "exited" =>
                  /\ Len(ToolMessagesBy(r)) = k - 1
                  /\ \A j \in DOMAIN MessagesBy(r) :
                        MessagesBy(r)[j].role = "assistant" =>
                           MessagesBy(r)[j].tool_calls # Absent
             /\ pc[r] = "responded" =>
                  (http[r].status = 500 /\ http[r].detail = outcome[r].error.msg)

\* The first tool of a two-tool batch was entered and its body raised.
C7_Witness ==
    \E r \in Reqs :
        /\ outcome[r].cause = "body"
        /\ idx[r] = 1
        /\ Len(assistant_message[r].tool_calls) = 2
        /\ pc[r] = "exited"

\* ----------------------------------------------------------------- C8
\* The exception classes with which a failure inside a tool method, or a
\* failure to bind the arguments, leaves _execute_tool.
OtherDispatchFailureClasses ==
    {HandleToolException("t", "t", BodyException(b).cls, BodyException(b).msg).cls :
        b \in ToolBehaviours \ {"returns"}}

\* C8: dispatching a name that is not registered fails with an error kind of
\* its own, one that neither an argument mismatch nor a failure inside a
\* tool can produce, whose text names the tool; no tool method is entered
\* and no tool message is appended for that request.
C8_UnknownToolKind ==
    \A r \in Reqs :
        outcome[r].cause = "lookup" =>
          LET tool_call == assistant_message[r].tool_calls[idx[r]]
          IN /\ outcome[r].error.cls \notin OtherDispatchFailureClasses
             /\ \E i \in DOMAIN outcome[r].error.msg :
                   outcome[r].error.msg[i] = tool_call.name
             /\ \A i \in DOMAIN invoked[r] : invoked[r][i] # idx[r]
             /\ pc[r] = "exited" => Len(ToolMessagesBy(r)) = idx[r] - 1

\* ----------------------------------------------------------------- C9
\* The error says "Invalid parameters for <tool>".
IsInvalidParameters(error) ==
    /\ error.cls = "Exception"
    /\ Len(error.msg) > 0
    /\ error.msg[1] = "Invalid parameters for "

\* C9: a failed dispatch is reported as invalid parameters exactly when the
\* arguments did not fit the declared parameters of the tool method; an
\* exception raised in the tool's body or while serializing its result is
\* never reported so.
C9_InvalidArgumentsExact ==
    \A r \in Reqs :
        outcome[r].cause \in DispatchCauses =>
          (IsInvalidParameters(outcome[r].error) <=> outcome[r].cause = "bind")

\* ---------------------------------------------------------------- C10
\* The instance of the first registered class that exposes a name.
FirstRegistrant(name) ==
    LET k == CHOOSE c \in 1..reg_done :
                 /\ \E i \in DOMAIN reg_classes[c] : reg_classes[c][i] = name
                 /\ \A d \in 1..(c - 1) :
                       \A i \in DOMAIN reg_classes[d] : reg_classes[d][i] # name
    IN ToolClasses[k]

\* C10: registering a name that is already in the registry leaves the
\* existing entry as it is: every name stays bound to the instance that
\* registered it first, also when a later tool class exposes the same name.
C10_NoSilentOverwrite ==
    \A name \in DOMAIN tool_registry :
        tool_registry[name].instance = FirstRegistrant(name)

\* ---------------------------------------------------------------- C11
\* The names of the tool definitions offered to the decision service.
AdvertisedNames == {tool_definitions[i] : i \in DOMAIN tool_definitions}

\* The tool classes that have at least one entry in the registry.
RegisteredClasses == {tool_registry[name].instance : name \in DOMAIN tool_registry}

\* C11: constructing the agent from the tool classes of the source ends with
\* an agent whose registry holds tools of all three tool classes (market,
\* disease, scheme) and whose advertised tool names are the registry's keys.
C11_ConstructionRegistersAllClasses ==
    (reg_classes = SourceDecorated /\ introspects = SourceIntrospects
        /\ constructed # "running") =>
      /\ constructed = "done"
      /\ RegisteredClasses = {ToolClasses[k] : k \in DOMAIN ToolClasses}
      /\ AdvertisedNames = DOMAIN tool_registry

\* ---------------------------------------------------------------- C12
\* C12: in every state of the constructed agent, through turns that succeed
\* or fail and through resets, the conversation history is not empty, its
\* first message is the system message with the fixed system prompt, and no
\* later message has the role system.
C12_SystemMessageFirstAndOnly ==
    constructed = "done" =>
      /\ Len(conversation_history) >= 1
      /\ conversation_history[1].role = "system"
      /\ conversation_history[1].content = system_prompt
      /\ \A j \in 2..Len(conversation_history) : conversation_history[j].role # "system"

\* A reset has happened after a failed turn and a later turn has appended
\* messages to the fresh history.
C12_Witness ==
    /\ resets >= 1
    /\ outcome[1].status = "raised"
    /\ pc[2] = "responded"
    /\ Len(conversation_history) >= 3

\* ---------------------------------------------------------------- C13
\* No request is being served: reset_conversation may be called.
BetweenTurns == \A r \in Reqs : pc[r] \in {"idle", "responded"}

\* C13: in any state between turns, reset_conversation leaves the history
\* equal to the single system message and the thought log empty, and a
\* second call right after the first leaves the same state as the first.
C13_ResetIdempotent ==
    BetweenTurns =>
      LET once == ResetResult(conversation_history, thought_log)
          twice == ResetResult(once.conversation_history, once.thought_log)
      IN /\ once.conversation_history = <<SystemMessage>>
         /\ once.thought_log = <<>>
         /\ twice = once
         /\ resets > 0 /\ (\A r \in Reqs : calls[r].decide = 0) =>
               /\ conversation_history = once.conversation_history
               /\ thought_log = once.thought_log

\* reset_conversation has been called after a completed turn whose messages
\* and thoughts it removed.
C13_Witness ==
    /\ resets = 1
    /\ pc[1] = "responded"
    /\ pc[2] = "idle"
    /\ conversation_history = <<SystemMessage>>
    /\ thought_log = <<>>

\* ---------------------------------------------------------------- C14
\* Sequence a is an initial part of sequence b.
IsPrefix(a, b) == Len(a) <= Len(b) /\ SubSeq(b, 1, Len(a)) = a

\* C14: the thought log is append-only: no step of the agent changes or
\* removes a thought that has been logged, so the log before a step is an
\* initial part of the log after it.
C14_ThoughtLogAppendOnly == [][IsPrefix(thought_log, thought_log')]_vars

\* C14, amended: every step of a turn leaves the logged thoughts in place
\* and only appends; the one operation that removes thoughts is
\* reset_conversation, which empties the whole log.
C14_AppendOnlyExceptReset ==
    [][IF resets' # resets
       THEN thought_log' = <<>>
       ELSE IsPrefix(thought_log, thought_log')]_vars

\* A reset has emptied the log and a later turn has logged its thoughts.
C14_Witness ==
    /\ resets = 1
    /\ pc[2] = "responded"
    /\ outcome[2].status = "returned"
    /\ Len(thought_log) >= 4

\* ------------------------------------------- scheme retrieval, on its own
\* AgroSchemeAnalyserTool.search_schemes(query, top_k) with its two external
\* services: the expansion service (an LLM) and the vector index.

\* Largest distance the index reports; distances are floats in the source
\* and only their order matters, so they are counted in whole steps.
MaxDistance == 2

\* The number of build_index calls in a behaviour.
MaxBuilds == 1

\* query_db(subquery, top_k=3): the candidate count of every subquery.
PerSubqueryCount == 3

\* search_schemes(self, query, top_k=2): the default of the caller's top_k.
DefaultTopK == 2

\* __main__: db.search_schemes("...", top_k=5).
MainTopK == 5

\* The values of top_k a caller passes.
TopKs == {-1, 0, 1, DefaultTopK, PerSubqueryCount, MainTopK}

\* Texts are sequences of characters; a word stands for its characters.
Whitespace == {" "}

Query == <<"crop insurance Karnataka">>

\* str.lstrip(chars), str.rstrip(chars), str.strip(chars)
RECURSIVE LStrip(_, _)
LStrip(text, chars) ==
    IF text # <<>> /\ Head(text) \in chars THEN LStrip(Tail(text), chars) ELSE text

RECURSIVE RStrip(_, _)
RStrip(text, chars) ==
    IF text # <<>> /\ text[Len(text)] \in chars
    THEN RStrip(SubSeq(text, 1, Len(text) - 1), chars)
    ELSE text

Strip(text, chars) == RStrip(LStrip(text, chars), chars)

\* q.strip() is empty: the line holds only whitespace.
IsBlank(line) == Strip(line, Whitespace) = <<>>

RECURSIVE DropLeadingBlank(_)
DropLeadingBlank(lines) ==
    IF lines # <<>> /\ IsBlank(Head(lines)) THEN DropLeadingBlank(Tail(lines)) ELSE lines

RECURSIVE DropTrailingBlank(_)
DropTrailingBlank(lines) ==
    IF lines # <<>> /\ IsBlank(lines[Len(lines)])
    THEN DropTrailingBlank(SubSeq(lines, 1, Len(lines) - 1))
    ELSE lines

\* content.strip().split('\n') for a content given by its lines: whitespace
\* and line breaks at both ends go; an empty text splits into one empty line.
StripSplit(lines) ==
    LET core == DropTrailingBlank(DropLeadingBlank(lines))
    IN IF core = <<>> THEN << <<>> >>
       ELSE [i \in DOMAIN core |->
               LET left == IF i = 1 THEN LStrip(core[i], Whitespace) ELSE core[i]
               IN IF i = Len(core) THEN RStrip(left, Whitespace) ELSE left]

\* What the expansion service does on a call: it raises, it answers with
\* message.content = None, or it answers with a text.
ExpansionFailures ==
    { [kind |-> "raises", lines |-> <<>>], [kind |-> "no_content", lines |-> <<>>] }

ExpansionContents ==
    { << <<"loans">> >>,
      << <<"-", " ", "loans">>, <<"-", " ", "\"", "subsidy", "\"">> >>,
      << <<"loans">>, <<" ">>, <<"subsidy">>, <<" ">> >>,
      << <<" ">> >> }

ExpansionOutcomes ==
    ExpansionFailures \cup { [kind |-> "content", lines |-> c] : c \in ExpansionContents }

\* rewrite_query(query), lines 173-199: the cleaned non-blank lines of the
\* answer; any exception inside the try (the service raising, .strip() on
\* None) gives the fallback [query].
rewrite_query_fallback_empty(query, answer) ==
    IF answer.kind # "content" THEN <<>>
    ELSE LET kept == SelectSeq(StripSplit(answer.lines), LAMBDA q : ~IsBlank(q))
         IN [i \in DOMAIN kept |->
               Strip(Strip(Strip(kept[i], {"-", " "}), Whitespace), {"\""})]

rewrite_query(query, answer) ==
    IF answer.kind # "content" THEN <<query>>
    ELSE LET kept == SelectSeq(StripSplit(answer.lines), LAMBDA q : ~IsBlank(q))
         IN [i \in DOMAIN kept |->
               Strip(Strip(Strip(kept[i], {"-", " "}), Whitespace), {"\""})]

\* The scheme documents of the index.
SchemeIds == {"s1", "s2", "s3"}

Hit(scheme_id, distance) == [scheme_id |-> scheme_id, distance |-> distance]

Hits == { Hit(d, x) : d \in SchemeIds, x \in 1..MaxDistance }

\* An object of the collection: the properties of a scheme document, of
\* which the model keeps the scheme_id, and the batch that inserted it (0
\* for the objects the collection held when the tool connected). Weaviate
\* gives every inserted object an id of its own, so two builds of the same
\* document leave two objects with one scheme_id.
StoredObject(scheme_id, batch) == [scheme_id |-> scheme_id, batch |-> batch]

\* The number of the last batch inserted into a collection.
RECURSIVE LastBatch(_)
LastBatch(collection) ==
    IF collection = {} THEN 0
    ELSE LET o == CHOOSE x \in collection : TRUE
             rest == LastBatch(collection \ {o})
         IN IF o.batch > rest THEN o.batch ELSE rest

\* What get_embedding does for the documents of a build: it answers for
\* all of them, or the embedding service raises for one.
EmbeddingOutcomes == {"embedded", "raises"}

\* The document lists a caller hands to build_index.
DocumentLists == {<<>>, <<"s1">>}

\* build_index(documents), lines 135-168: every document is embedded
\* first, then all are inserted in one batch; an embedding that raises
\* leaves build_index before anything is inserted.
build_index(collection, documents, embedding) ==
    IF embedding = "raises" THEN collection
    ELSE collection \cup
           {StoredObject(documents[i], LastBatch(collection) + 1) : i \in DOMAIN documents}

\* The collection as the tool finds it: any set of documents, each once.
FoundCollections == { {StoredObject(d, 0) : d \in documents} : documents \in SUBSET SchemeIds }

\* The hits of a list are objects of the collection: a scheme_id comes at
\* most as often as the collection holds objects with it.
Stored(results, collection) ==
    \A d \in SchemeIds :
        Cardinality({i \in DOMAIN results : results[i].scheme_id = d})
            <= Cardinality({o \in collection : o.scheme_id = d})

\* get_embedding(text), lines 113-119: the embedding service answers with
\* a vector, or the call raises; nothing in get_embedding catches it.
get_embedding(embedding) ==
    IF embedding = "raises"
    THEN Error("APIError", <<"embedding service failed">>)
    ELSE NoError

\* query_db(subquery, top_k), lines 202-233, how a call ends. The subquery
\* is embedded first (line 206, outside any try): when that raises, the
\* exception leaves query_db. Otherwise near_vector(limit=top_k) answers
\* with at most top_k objects of the collection, nearest first, each object
\* once (nothing on an empty collection), and the hit list is returned.
query_db(collection, limit) ==
    { [raised |-> get_embedding("raises"), results |-> <<>>] }
    \cup { [raised |-> get_embedding("embedded"), results |-> h] :
             h \in { g \in UNION { [1..n -> Hits] : n \in 0..limit } :
                       /\ \A i, j \in DOMAIN g : i < j => g[i].distance <= g[j].distance
                       /\ Stored(g, collection) } }

\* How query_db(subquery, top_k=3) may end on a collection holding every
\* document in every batch; a smaller collection gives those of the hit
\* lists whose hits it stores.
IndexAnswers ==
    query_db({StoredObject(d, b) : d \in SchemeIds, b \in 0..MaxBuilds}, PerSubqueryCount)

\* {r['scheme_id']: r for r in all_results}.values(): a dict keeps a key at
\* the position of its first insertion and the value of its last.
RECURSIVE UniqueResults(_, _)
UniqueResults(unique, results) ==
    IF results = <<>> THEN unique
    ELSE LET r == Head(results)
             stored ==
               IF \E j \in DOMAIN unique : unique[j].scheme_id = r.scheme_id
               THEN [j \in DOMAIN unique |->
                       IF unique[j].scheme_id = r.scheme_id THEN r ELSE unique[j]]
               ELSE Append(unique, r)
         IN UniqueResults(stored, Tail(results))

\* sorted(unique_results, key=lambda x: x['distance']): a stable sort, equal
\* distances keep the order they came in.
InsertByDistance_unsorted(ranked, r) == ranked \o <<r>>

InsertByDistance(ranked, r) ==
    LET before == SelectSeq(ranked, LAMBDA x : x.distance <= r.distance)
        after == SelectSeq(ranked, LAMBDA x : x.distance > r.distance)
    IN before \o <<r>> \o after

RECURSIVE SortedByDistance(_, _)
SortedByDistance(ranked, results) ==
    IF results = <<>> THEN ranked
    ELSE SortedByDistance(InsertByDistance(ranked, Head(results)), Tail(results))

\* ranked[:top_k], a Python slice: a negative top_k counts from the end.
Slice_keeps_all(ranked, top_k) == ranked

Slice(ranked, top_k) ==
    LET n == Len(ranked)
        stop == IF top_k >= 0 THEN (IF top_k < n THEN top_k ELSE n)
                ELSE (IF n + top_k > 0 THEN n + top_k ELSE 0)
    IN SubSeq(ranked, 1, stop)

\* Mutant of sorted_by_distance: a sort that is not stable hands back any
\* order of the documents in which the distances do not decrease.
sorted_by_distance_unstable(unique) ==
    { ranked \in [1..Len(unique) -> {unique[i] : i \in DOMAIN unique}] :
        /\ \A i, j \in DOMAIN ranked : i # j => ranked[i] # ranked[j]
        /\ \A i, j \in DOMAIN ranked : i < j => ranked[i].distance <= ranked[j].distance }

\* The lists a call of sorted(unique_results, key=...) at line 252 may hand
\* back: Python's sort is stable, which leaves one list.
sorted_by_distance(unique) == { SortedByDistance(<<>>, unique) }

\* search_schemes, lines 248-252, on the merged hits: the lists a call may
\* return.
RankedResults(all_results, top_k) ==
    { Slice(ranked, top_k) : ranked \in sorted_by_distance(UniqueResults(<<>>, all_results)) }

\* search_schemes, line 243 and the names bound later: every call starts
\* with its own empty locals, whatever an earlier call left.
FreshLocals(previous) ==
    [search_queries |-> <<>>, queried |-> 0, all_results |-> <<>>, result |-> <<>>]

\* The state of a call of search_schemes(query, top_k): its locals, and for
\* comparing two runs the hit lists the index gave (answers), the number of
\* the run and the result of the first run.
Call(query, top_k, run, answers, first, locals) ==
    [pc |-> "called", query |-> query, top_k |-> top_k,
     search_queries |-> locals.search_queries, queried |-> locals.queried,
     all_results |-> locals.all_results, result |-> locals.result,
     error |-> NoError, run |-> run, answers |-> answers, first |-> first]

\* A caller calls search_schemes(query, top_k) on a constructed tool whose
\* collection holds any set of documents, also none.
InitSearch ==
    /\ NoAgent
    /\ overlapping = FALSE
    /\ twins = NoTwins
    /\ NoRequests
    /\ expansion \in ExpansionOutcomes
    /\ index \in FoundCollections
    /\ tool_run = NoToolRun
    /\ \E k \in TopKs :
          search = Call(Query, k, 1, <<>>, <<>>, FreshLocals([queried |-> 0]))

\* Everything but the locals of search_schemes.
not_search_vars ==
    <<tool_registry, tool_definitions, conversation_history, thought_log, pc,
      assistant_message, idx, outcome, http, session, appended_by, submitted,
      invoked, calls, resets, reg_classes, reg_done, introspects, constructed,
      expansion, index, tool_run, overlapping, twins>>

\* build_index(documents), a public method of the tool: a batch of
\* documents is added to the collection, before, during or after a call of
\* search_schemes.
BuildIndex(documents, embedding) ==
    /\ LastBatch(index) < MaxBuilds
    /\ index' = build_index(index, documents, embedding)
    /\ UNCHANGED <<tool_registry, tool_definitions, conversation_history, thought_log, pc,
                   assistant_message, idx, outcome, http, session, appended_by, submitted,
                   invoked, calls, resets, reg_classes, reg_done, introspects, constructed,
                   expansion, search, tool_run, overlapping, twins>>

\* search_schemes, lines 239-240: search_queries = self.rewrite_query(query)
RewriteQuery ==
    /\ search.pc = "called"
    /\ search' = [search EXCEPT !.search_queries = rewrite_query(search.query, expansion),
                                !.pc = "searching"]
    /\ UNCHANGED not_search_vars

\* search_schemes, lines 244-246: one pass of the loop over the subqueries.
\* An exception of query_db leaves the loop and search_schemes, which has
\* no try of its own; a hit list extends all_results.
QueryDb(answer) ==
    /\ search.pc = "searching"
    /\ search.run = 1
    /\ search.queried < Len(search.search_queries)
    /\ Stored(answer.results, index)
    /\ IF answer.raised # NoError
       THEN search' = [search EXCEPT !.error = answer.raised, !.pc = "raised"]
       ELSE search' = [search EXCEPT !.all_results = @ \o answer.results,
                                     !.queried = @ + 1,
                                     !.answers = Append(@, answer.results)]
    /\ UNCHANGED not_search_vars

\* The same pass in a second run, where the index gives this subquery the
\* hit list it gave it in the first run.
QueryDbAgain ==
    /\ search.pc = "searching"
    /\ search.run = 2
    /\ search.queried < Len(search.search_queries)
    /\ search.queried < Len(search.answers)
    /\ search' = [search EXCEPT !.all_results = @ \o search.answers[search.queried + 1],
                                !.queried = @ + 1]
    /\ UNCHANGED not_search_vars

\* search_schemes, lines 248-252: deduplicate, sort, cut, return.
ReturnResults ==
    /\ search.pc = "searching"
    /\ search.queried = Len(search.search_queries)
    /\ \E result \in RankedResults(search.all_results, search.top_k) :
          search' = [search EXCEPT !.result = result, !.pc = "returned"]
    /\ UNCHANGED not_search_vars

\* The caller calls search_schemes again with the same query and top_k; the
\* expansion service and the index answer as they did.
SearchAgain ==
    /\ search.pc = "returned"
    /\ search.run = 1
    /\ search' = Call(search.query, search.top_k, 2, search.answers, search.result,
                      FreshLocals(search))
    /\ UNCHANGED not_search_vars

NextSearch ==
    \/ \E documents \in DocumentLists, embedding \in EmbeddingOutcomes :
          BuildIndex(documents, embedding)
    \/ RewriteQuery
    \/ \E answer \in IndexAnswers : QueryDb(answer)
    \/ QueryDbAgain
    \/ ReturnResults
    \/ SearchAgain

SpecSearch == InitSearch /\ [][NextSearch]_vars

\* ------------------------------------------- reading a retrieval call
Returned_search == search.pc = "returned"

\* The entries of a list of hits, as a set.
Entries(results) == {results[i] : i \in DOMAIN results}

\* The hits of the merged list for one document.
HitsOf(scheme_id) == {h \in Entries(search.all_results) : h.scheme_id = scheme_id}

\* The deduplicated set the ranking works on.
Deduplicated == UniqueResults(<<>>, search.all_results)

\* ---------------------------------------------------------------- C15
\* C15: when the expansion service raises or answers without content,
\* rewrite_query gives the one-element list of the original query, and
\* search_schemes searches the index for it once and returns hits of that
\* search: every entry returned is one of them, every document hit is
\* returned when top_k allows, and at least one when there is a hit and
\* top_k >= 1. An exception that ends the call is the one query_db raised
\* for the original query, never the failure of the expansion.
C15_ExpansionFailureFallsBack ==
    expansion \in ExpansionFailures =>
      /\ search.pc \in {"searching", "returned", "raised"} =>
            search.search_queries = <<search.query>>
      /\ search.pc = "raised" =>
            /\ search.error = get_embedding("raises")
            /\ search.queried = 0
      /\ Returned_search =>
            /\ search.queried = 1
            /\ Entries(search.result) \subseteq Entries(search.all_results)
            /\ (search.top_k >= 1 /\ search.all_results # <<>>) => search.result # <<>>
            /\ search.top_k >= Len(search.all_results) =>
                  {e.scheme_id : e \in Entries(search.result)}
                     = {e.scheme_id : e \in Entries(search.all_results)}

\* The expansion answered without content and the search returned two hits
\* of the original query.
C15_Witness ==
    /\ expansion.kind = "no_content"
    /\ Returned_search
    /\ Len(search.result) = 2
    /\ search.top_k = DefaultTopK

\* ---------------------------------------------------------------- C16
\* C16: every document of the merged hits is returned at most once, and a
\* returned document carries the smallest distance of all its hits, in
\* whatever order the subqueries reported it.
C16_DedupKeepsSmallestDistance ==
    Returned_search =>
      /\ \A i, j \in DOMAIN search.result :
            i # j => search.result[i].scheme_id # search.result[j].scheme_id
      /\ \A i \in DOMAIN search.result :
            \A h \in HitsOf(search.result[i].scheme_id) :
               search.result[i].distance <= h.distance

\* ---------------------------------------------------------------- C17
\* C17: the fixed candidate count of a subquery is at least the top_k of the
\* call, for every top_k a caller passes.
C17_CandidateCountCoversTopK ==
    search.pc # "idle" => PerSubqueryCount >= search.top_k

\* ---------------------------------------------------------------- C18
\* C18: a call with top_k <= 0 fails with InvalidArgument: it never returns
\* a result list.
C18_NonPositiveTopKRejected ==
    (search.pc # "idle" /\ search.top_k <= 0) => ~Returned_search

\* ---------------------------------------------------------------- C19
\* C19: in a non-empty result the distances never decrease from one rank to
\* the next, and no document of the deduplicated set that the cut left out
\* is nearer than a returned one.
C19_RankedByDistance ==
    (Returned_search /\ search.result # <<>>) =>
      /\ \A i, j \in DOMAIN search.result :
            i < j => search.result[i].distance <= search.result[j].distance
      /\ \A left \in Entries(Deduplicated) \ Entries(search.result) :
            \A i \in DOMAIN search.result : search.result[i].distance <= left.distance

\* Two subqueries reported hits out of distance order, and the cut left a
\* document out.
C19_Witness ==
    /\ Returned_search
    /\ Len(search.result) = 2
    /\ Len(Deduplicated) = 3
    /\ search.queried = 2
    /\ Deduplicated[1].distance > Deduplicated[2].distance
    /\ search.result[1].distance < search.result[2].distance

\* ---------------------------------------------------------------- C20
\* Lexicographic order of the document ids.
IdBefore(a, b) ==
    LET rank == [d \in SchemeIds |-> CASE d = "s1" -> 1 [] d = "s2" -> 2 [] OTHER -> 3]
    IN rank[a] < rank[b]

\* C20: two returned documents with equal distance appear in the
\* lexicographic order of their ids, whatever order the hits came in.
C20_TiesOrderedById ==
    Returned_search =>
      \A i, j \in DOMAIN search.result :
         (i < j /\ search.result[i].distance = search.result[j].distance) =>
            IdBefore(search.result[i].scheme_id, search.result[j].scheme_id)

\* ---------------------------------------------------------------- C21
\* The number of distinct documents in the merged hits.
DistinctDocuments == Cardinality({h.scheme_id : h \in Entries(search.all_results)})

\* C21: for top_k >= 1 the result holds exactly min(top_k, D) entries, D the
\* number of distinct documents in the merged hits: each entry is a hit,
\* no document twice, nothing added; with no hit at all the result is the
\* empty list.
C21_ResultSize ==
    (Returned_search /\ search.top_k >= 1) =>
      /\ Len(search.result) =
            (IF search.top_k < DistinctDocuments THEN search.top_k ELSE DistinctDocuments)
      /\ \A i, j \in DOMAIN search.result :
            i # j => search.result[i].scheme_id # search.result[j].scheme_id
      /\ Entries(search.result) \subseteq Entries(search.all_results)
      /\ search.all_results = <<>> => search.result = <<>>

\* top_k is larger than the number of distinct documents, which two
\* subqueries reported more than once.
C21_Witness ==
    /\ Returned_search
    /\ search.top_k = MainTopK
    /\ search.queried = 2
    /\ Len(search.all_results) = 5
    /\ Len(search.result) = 3

\* ---------------------------------------------------------------- C22
\* C22: on a vector index that holds no document, search_schemes fails with
\* IndexNotReady: it never returns a result list.
C22_EmptyIndexRejected ==
    (search.pc # "idle" /\ index = {}) => ~Returned_search

MaxItems == 2

\* A decoded JSON value, as far as the tool bodies look at it: its type, for
\* a dict its keys, and the value under its list-valued key ("records" of
\* the market API, "treatments" of a diagnosis): absent, null, or a list
\* whose entries are strings or dicts; of a dict entry the model keeps
\* whether one of its market, state and district values is a list (which
\* cannot be put in a set) and whether one of its prices is an integer too
\* large for a float.
Json(type, keys, items_type, items) ==
    [type |-> type, keys |-> keys, items_type |-> items_type, items |-> items]

ItemKinds == {"dict", "dict_list_place", "dict_huge_price", "str"}

IsDict(item) == item # "str"

ItemLists == UNION { [1..n -> ItemKinds] : n \in 0..MaxItems }

\* The JSON values a service may send where a dict with the key `list_key`
\* is expected.
JsonValues(list_key) ==
    { Json(t, {}, "absent", <<>>) : t \in {"null", "number", "str", "list"} }
      \cup { Json("dict", {"error"}, "absent", <<>>), Json("dict", {}, "absent", <<>>),
              Json("dict", {list_key}, "null", <<>>) }
      \cup { Json("dict", {list_key}, "list", items) : items \in ItemLists }

\* key in value: membership for a dict (its keys), a list (its entries) and
\* a str (substring; the texts here hold neither key); TypeError otherwise.
PyContains(value, key) ==
    CASE value.type = "dict" -> [ok |-> TRUE, value |-> key \in value.keys, error |-> Null]
      [] value.type \in {"list", "str"} -> [ok |-> TRUE, value |-> FALSE, error |-> Null]
      [] OTHER -> [ok |-> FALSE, value |-> FALSE, error |-> "TypeError"]

\* How a tool method ended: it returned a value (a dict or a str, marked
\* success or not, with or without an error field) or an exception left it.
\* failed: something went wrong inside (service failure, bad payload, bad
\* argument).
NoToolOutcome ==
    [status |-> "none", type |-> Null, success |-> FALSE, has_error |-> FALSE,
     failed |-> FALSE, error |-> Null]

ToolReturned(type, success, has_error, failed) ==
    [status |-> "returned", type |-> type, success |-> success, has_error |-> has_error,
     failed |-> failed, error |-> Null]

ToolRaised(cls) ==
    [status |-> "raised", type |-> Null, success |-> FALSE, has_error |-> FALSE,
     failed |-> TRUE, error |-> cls]

\* ---- AgroMarketAnalyserTool.execute
\* The limit argument as the decision service may send it: an integer, null
\* or a string.
LimitValues ==
    { [type |-> "int", value |-> v] : v \in {0, 5, 500} }
      \cup { [type |-> "NoneType", value |-> 0], [type |-> "str", value |-> 0] }

\* limit = max(1, min(limit, 100)), line 85: comparing None or a str with an
\* int raises TypeError.
ValidateLimit(limit) ==
    IF limit.type = "int"
    THEN LET low == IF limit.value < 100 THEN limit.value ELSE 100
         IN [ok |-> TRUE, value |-> IF low > 1 THEN low ELSE 1, error |-> Null]
    ELSE [ok |-> FALSE, value |-> 0, error |-> "TypeError"]

\* What requests.get(...), raise_for_status() and response.json() do: a
\* timeout, another RequestException (connection error, HTTP error status,
\* a body that is not JSON), or a decoded JSON body.
NoBody == Json("none", {}, "absent", <<>>)

MarketServiceOutcomes ==
    { [kind |-> "timeout", body |-> NoBody], [kind |-> "request_error", body |-> NoBody] }
      \cup { [kind |-> "json", body |-> b] : b \in JsonValues("records") }

\* _fetch_api_data, lines 159-166
_fetch_api_data(service) ==
    IF service.kind = "json" THEN service.body
    ELSE Json("dict", {"error", "status"}, "absent", <<>>)

\* _safe_float(value), lines 288-296: float(value) with ValueError and
\* TypeError caught; float() of an integer beyond the float range raises
\* OverflowError, which is not caught.
_safe_float(item) ==
    IF item = "dict_huge_price" THEN [ok |-> FALSE, error |-> "OverflowError"]
    ELSE [ok |-> TRUE, error |-> Null]

\* The loop of _process_response, lines 179-194, over the records in
\* order: .get on an entry that is not a dict raises AttributeError, and
\* an exception of _safe_float leaves the loop.
RECURSIVE ProcessRecords(_, _)
ProcessRecords(records, i) ==
    IF i > Len(records) THEN [ok |-> TRUE, error |-> Null]
    ELSE IF ~IsDict(records[i]) THEN [ok |-> FALSE, error |-> "AttributeError"]
    ELSE IF ~_safe_float(records[i]).ok
         THEN [ok |-> FALSE, error |-> _safe_float(records[i]).error]
    ELSE ProcessRecords(records, i + 1)

\* _calculate_statistics(records), lines 204-233: nothing to do for no
\* records; set(r["market"] ...), set(r["state"] ...), set(r["district"]
\* ...) raise TypeError when a value is a list.
_calculate_statistics(records) ==
    IF records = <<>> THEN [ok |-> TRUE, error |-> Null]
    ELSE IF \E i \in DOMAIN records : records[i] = "dict_list_place"
         THEN [ok |-> FALSE, error |-> "TypeError"]
    ELSE [ok |-> TRUE, error |-> Null]

\* _process_response, lines 168-202: the number of processed records, or
\* the exception of iterating a null, of the loop over the records, or of
\* the statistics.
_process_response(raw_response) ==
    LET has == PyContains(raw_response, "records")
    IN IF ~has.ok THEN [ok |-> FALSE, records |-> 0, error |-> has.error]
       ELSE IF ~has.value THEN [ok |-> TRUE, records |-> 0, error |-> Null]
       ELSE IF raw_response.items_type # "list"
            THEN [ok |-> FALSE, records |-> 0, error |-> "TypeError"]
       ELSE IF ~ProcessRecords(raw_response.items, 1).ok
            THEN [ok |-> FALSE, records |-> 0,
                  error |-> ProcessRecords(raw_response.items, 1).error]
       ELSE IF ~_calculate_statistics(raw_response.items).ok
            THEN [ok |-> FALSE, records |-> 0,
                  error |-> _calculate_statistics(raw_response.items).error]
       ELSE [ok |-> TRUE, records |-> Len(raw_response.items), error |-> Null]

\* execute, lines 96-131, from the raw response on.
execute_fetched(raw_response) ==
    LET err == PyContains(raw_response, "error")
        processed_data == _process_response(raw_response)
    IN IF ~err.ok THEN ToolRaised(err.error)
       ELSE IF err.value THEN ToolReturned("dict", FALSE, TRUE, TRUE)
       ELSE IF ~processed_data.ok THEN ToolRaised(processed_data.error)
       ELSE ToolReturned("dict", TRUE, FALSE, FALSE)

\* ---- AgroDiseaseAnalyserTool.get_quick_diagnosis
\* validate_image(image_path): whether PIL opens the file.
Images == {"valid", "invalid"}

\* What the vision LLM does: it raises, or it answers with a content that is
\* None, a text that is not JSON, or a JSON text.
NoContent == [form |-> "none", value |-> NoBody]

VisionOutcomes ==
    { [kind |-> "raises", content |-> NoContent], [kind |-> "answers", content |-> NoContent],
      [kind |-> "answers", content |-> [form |-> "text", value |-> NoBody]] }
      \cup { [kind |-> "answers", content |-> [form |-> "json", value |-> v]] :
                v \in JsonValues("treatments") }

ErrorDict == Json("dict", {"error", "status"}, "absent", <<>>)

\* diagnose, lines 89-184: an invalid image and every exception of the try
\* (the LLM raising, json.loads(None)) give a dict with the key error; a
\* text that is not JSON gives a dict with the key raw_diagnosis; a JSON text
\* gives whatever it decodes to.
diagnose(image, vision) ==
    IF image = "invalid" THEN Json("dict", {"error"}, "absent", <<>>)
    ELSE IF vision.kind = "raises" \/ vision.content.form = "none" THEN ErrorDict
    ELSE IF vision.content.form = "text"
         THEN Json("dict", {"raw_diagnosis", "note"}, "absent", <<>>)
    ELSE vision.content.value

\* get_quick_diagnosis, lines 204-233, from the result of diagnose on: an
\* error and a raw diagnosis are returned as a plain str.
get_quick_diagnosis_result(result) ==
    LET err == PyContains(result, "error")
        raw == PyContains(result, "raw_diagnosis")
    IN IF ~err.ok THEN ToolRaised(err.error)
       ELSE IF err.value THEN ToolReturned("str", FALSE, FALSE, TRUE)
       ELSE IF raw.value THEN ToolReturned("str", TRUE, FALSE, FALSE)
       ELSE IF result.type # "dict" THEN ToolRaised("AttributeError")
       ELSE IF result.items_type = "null" THEN ToolRaised("TypeError")
       ELSE IF \E i \in DOMAIN result.items : ~IsDict(result.items[i])
            THEN ToolRaised("AttributeError")
       ELSE ToolReturned("dict", TRUE, FALSE, FALSE)

\* ---- one call of a tool method
NoVision == [kind |-> "none", content |-> NoContent]

NoService == [kind |-> "none", body |-> NoBody]

ToolRun(tool, limit, service, image, vision) ==
    [tool |-> tool, pc |-> "called", limit |-> limit, service |-> service,
     image |-> image, vision |-> vision, outcome |-> NoToolOutcome]

\* Everything but the tool call.
not_tool_vars ==
    <<tool_registry, tool_definitions, conversation_history, thought_log, pc,
      assistant_message, idx, outcome, http, session, appended_by, submitted,
      invoked, calls, resets, reg_classes, reg_done, introspects, constructed,
      expansion, index, search, overlapping, twins>>

\* A caller calls execute(limit=...) or get_quick_diagnosis(image_path) on a
\* constructed tool; the external service behaves in one of its ways.
InitTools ==
    /\ NoAgent
    /\ overlapping = FALSE
    /\ twins = NoTwins
    /\ NoRequests
    /\ expansion = Null
    /\ index = {}
    /\ search = NoSearch
    /\ \/ \E limit \in LimitValues, service \in MarketServiceOutcomes :
            tool_run = ToolRun("execute", limit, service, Null, NoVision)
       \/ \E image \in Images, vision \in VisionOutcomes :
            tool_run = ToolRun("get_quick_diagnosis", [type |-> "int", value |-> 0],
                               NoService, image, vision)

\* execute, lines 84-94: clamp the limit and send the API request.
ExecuteCalled ==
    /\ tool_run.pc = "called"
    /\ tool_run.tool = "execute"
    /\ LET limit == ValidateLimit(tool_run.limit)
       IN IF limit.ok
          THEN tool_run' = [tool_run EXCEPT !.pc = "fetching",
                                            !.limit = [type |-> "int", value |-> limit.value]]
          ELSE tool_run' = [tool_run EXCEPT !.pc = "done", !.outcome = ToolRaised(limit.error)]
    /\ UNCHANGED not_tool_vars

\* execute, lines 88-131: the API request is over; the rest of the method.
FetchAnswers ==
    /\ tool_run.pc = "fetching"
    /\ tool_run' = [tool_run EXCEPT
                       !.pc = "done",
                       !.outcome = execute_fetched(_fetch_api_data(tool_run.service))]
    /\ UNCHANGED not_tool_vars

\* get_quick_diagnosis, line 202, and diagnose, lines 89-141: validate the
\* image and send the request to the vision LLM.
DiagnosisCalled ==
    /\ tool_run.pc = "called"
    /\ tool_run.tool = "get_quick_diagnosis"
    /\ IF tool_run.image = "invalid"
       THEN tool_run' = [tool_run EXCEPT
                           !.pc = "done",
                           !.outcome = get_quick_diagnosis_result(
                                           diagnose(tool_run.image, tool_run.vision))]
       ELSE tool_run' = [tool_run EXCEPT !.pc = "asking"]
    /\ UNCHANGED not_tool_vars

\* diagnose, lines 142-184, and get_quick_diagnosis, lines 204-233: the
\* vision LLM call is over; the rest of both methods.
VisionAnswers ==
    /\ tool_run.pc = "asking"
    /\ tool_run' = [tool_run EXCEPT
                       !.pc = "done",
                       !.outcome = get_quick_diagnosis_result(
                                       diagnose(tool_run.image, tool_run.vision))]
    /\ UNCHANGED not_tool_vars

NextTools ==
    \/ ExecuteCalled
    \/ FetchAnswers
    \/ DiagnosisCalled
    \/ VisionAnswers

SpecTools == InitTools /\ [][NextTools]_vars

\* ---------------------------------------------------------------- C24
\* C24: execute and get_quick_diagnosis never end with an exception: for
\* every argument and every behaviour of the external service they return
\* a structured result (a dict), which carries an error field when
\* something failed inside.
C24_ToolsNeverRaise ==
    (tool_run.pc = "done") =>
      /\ tool_run.outcome.status = "returned"
      /\ tool_run.outcome.type = "dict"
      /\ tool_run.outcome.failed => tool_run.outcome.has_error

\* ---------------------------------------------------------------- C25
\* The turn of request 1 runs alone on a fresh agent: the thought log
\* holds the thoughts of this turn and nothing else.
FirstTurnAlone == ~overlapping /\ resets = 0 /\ pc[2] = "idle"

\* C25: a turn has logged one thought per transition it has made, whatever
\* the size of its batch: one when the decision has been requested, two
\* while the batch is dispatched, three when the synthesis has been
\* requested, four when a tool turn is done, three when a direct answer
\* is done.
C25_OneThoughtPerTransition ==
    FirstTurnAlone =>
      /\ pc[1] = "deciding" => Len(thought_log) = 1
      /\ (pc[1] \in {"dispatching", "in_tool", "tool_returned"}) => Len(thought_log) = 2
      /\ pc[1] = "synthesizing" => Len(thought_log) = 3
      /\ (pc[1] = "exited" /\ outcome[1].status = "returned") =>
            Len(thought_log) = (IF outcome[1].shape = "dict" THEN 4 ELSE 3)

\* ---------------------------------------------------------------- C27
\* The decision of request r carries tool calls together with text.
TextWithToolCalls(r) ==
    /\ Decided(r)
    /\ Len(assistant_message[r].tool_calls) >= 1
    /\ assistant_message[r].content # Null

\* C27: when the decision carries tool calls together with text, the
\* message the turn appends after its user message is an assistant message
\* with null content and the whole batch in request order; the tool calls
\* are dispatched in order (all of them in a turn no dispatch of which
\* fails); and the text is in no message the turn appends and is not what
\* the turn returns.
C27_ToolCallsPrecedeText ==
    \A r \in Reqs :
        TextWithToolCalls(r) =>
          LET requests == assistant_message[r].tool_calls
              text == assistant_message[r].content
              mine == MessagesBy(r)
          IN /\ outcome[r].content # text
             /\ invoked[r] = [i \in 1..Len(invoked[r]) |-> i]
             /\ pc[r] = "dispatching" => Len(invoked[r]) = idx[r] - 1
             /\ (pc[r] \in {"generating", "synthesizing"} \/ outcome[r].status = "returned") =>
                    Len(invoked[r]) = Len(requests)
             /\ pc[r] \in (InTurn \ {"decided"}) \cup {"exited"} =>
                  /\ Len(mine) >= 2
                  /\ mine[2] = [role |-> "assistant", content |-> Null,
                                tool_calls |-> requests, tool_call_id |-> Absent]
                  /\ \A j \in DOMAIN mine : mine[j].content # text

\* A turn whose decision held text and two tool calls has returned.
C27_Witness ==
    \E r \in Reqs :
        /\ TextWithToolCalls(r)
        /\ assistant_message[r].content = "plan text"
        /\ Len(assistant_message[r].tool_calls) = 2
        /\ pc[r] = "exited"
        /\ outcome[r].status = "returned"

\* ---------------------------------------------------------------- C28
\* C28: a turn calls the decision service exactly once and the generation
\* service at most once, and enters the tool method of each tool call at
\* most once; a turn in which one of these calls failed has ended with that
\* failure, with the failed call made once: a failed decision is followed
\* by no tool and no generation call, a failed dispatch by no later tool
\* and no generation call, a failed generation by nothing.
C28_NoRetry ==
    \A r \in Reqs :
        pc[r] # "idle" =>
          /\ calls[r].decide = (IF pc[r] \in {"accepted", "user_appended", "calling"}
                                THEN 0 ELSE 1)
          /\ calls[r].generate <= 1
          /\ \A i, j \in DOMAIN invoked[r] : i < j => invoked[r][i] < invoked[r][j]
          /\ Len(invoked[r]) <= Len(assistant_message[r].tool_calls)
          /\ outcome[r].status = "raised" =>
               /\ pc[r] \in {"exited", "responded"}
               /\ outcome[r].cause = "decide" =>
                    (invoked[r] = <<>> /\ calls[r].generate = 0)
               /\ outcome[r].cause \in DispatchCauses =>
                    /\ calls[r].generate = 0
                    /\ \A i \in DOMAIN invoked[r] : invoked[r][i] <= idx[r]
               /\ outcome[r].cause = "generate" => calls[r].generate = 1

\* The generation call of a turn that dispatched two tool calls failed,
\* and /chat has answered.
C28_Witness ==
    \E r \in Reqs :
        /\ outcome[r].cause = "generate"
        /\ Len(invoked[r]) = 2
        /\ pc[r] = "responded"

\* ---------------------------------------------------------------- C29
\* C29: a step that is not a reset only appends to the conversation
\* history (the history before the step is a prefix of the history after
\* it, whether the turn goes on, returns or fails), and a request sent to
\* the decision or generation service by such a step holds the whole
\* history as it was before the step, unchanged, as a prefix.
C29_HistoryOnlyGrows ==
    [][(resets' = resets) =>
          /\ IsPrefix(conversation_history, conversation_history')
          /\ \A r \in Reqs :
                submitted'[r] # submitted[r] =>
                   IsPrefix(conversation_history, submitted'[r].messages)]_vars

\* The first turn failed after its batch was appended, there was no reset,
\* and the decision request of the second turn holds the messages of the
\* first.
C29_Witness ==
    /\ resets = 0
    /\ outcome[1].status = "raised"
    /\ outcome[1].cause \in DispatchCauses
    /\ pc[2] = "deciding"
    /\ \E j \in DOMAIN submitted[2].origins :
          /\ submitted[2].origins[j] = 1
          /\ submitted[2].messages[j].role = "assistant"

\* ---------------------------------------------------------------- C30
\* C30: the registry and the tool definitions of a constructed agent are
\* what construction built from the tool classes; no step of chat (on any
\* path, failures included) and no reset changes them; and every decision
\* request offers those definitions, in registration order.
C30_RegistryReadOnly ==
    [][/\ constructed = "done" =>
            /\ tool_registry' = tool_registry
            /\ tool_definitions' = tool_definitions
            /\ tool_registry' = ConstructedRegistry(introspects).registry
            /\ tool_definitions' = _create_tool_definitions(introspects).definitions
       /\ \A r \in Reqs :
             calls'[r].decide # calls[r].decide =>
                submitted'[r].tools = _create_tool_definitions(introspects).definitions]_vars

\* After a failed first turn and a reset, the decision request of the
\* second turn offers the tool definitions built at construction.
C30_Witness ==
    /\ resets = 1
    /\ outcome[1].status = "raised"
    /\ pc[2] = "deciding"
    /\ Len(tool_definitions) >= 1
    /\ submitted[2].tools = tool_definitions

\* ------------------------------------------- two agents, the same inputs
\* What a caller may have left in thought_log before the first turn
\* (thought_log is a public attribute, and get_thought_log() hands out the
\* list itself).
PriorLogs == {<<>>, <<Thought("Earlier Session", Null)>>}

\* The arguments of a call of chat(): a question without an image, and a
\* question with the path of an image.
TwinInputs ==
    { [user_message |-> UserText("farmer_a"), image_path |-> Null],
      [user_message |-> UserText("farmer_b"), image_path |-> "leaf.jpg"] }

\* A call of chat() that has not been made: its arguments, its locals
\* (response.choices[0].message and the loop position) and how it ended.
NoTurn ==
    [pc |-> "idle", args |-> Null, assistant_message |-> NoMessage, idx |-> 0,
     outcome |-> NoOutcome]

\* An agent after construction with the given debug_mode, its thought log
\* then set to the given contents; `turn` holds the calls of chat() made on
\* it, `resetting` where a call of reset_conversation() stands.
TwinAgent(debug_mode, log) ==
    [debug_mode |-> debug_mode, conversation_history |-> _initialize_conversation,
     thought_log |-> log, turn |-> [r \in Reqs |-> NoTurn], resetting |-> "idle"]

\* What the decision service answers in a turn: it fails, or it replies.
TwinDecisions(r, overlap) ==
    { [ok |-> FALSE, reply |-> NoMessage] }
    \cup { [ok |-> TRUE, reply |-> reply] : reply \in RepliesExplored(r, overlap) }

\* What the generation service answers: it fails (Null) or it replies.
TwinGenerations == {Null} \cup GenerationReplies

\* What a step of a call of chat() is given from outside: the arguments
\* when the call is made, and the answer of the decision service, of the
\* tool method or of the generation service when the call has waited for it.
\* What may be given to a step of call r standing at one of the positions.
GivenAt(r, positions, overlap) ==
    { [args |-> x, decision |-> d, behaviour |-> t, generation |-> g] :
        x \in (IF "idle" \in positions THEN TwinInputs ELSE {Null}),
        d \in (IF "deciding" \in positions THEN TwinDecisions(r, overlap) ELSE {Null}),
        t \in (IF "in_tool" \in positions THEN ToolBehaviours ELSE {Null}),
        g \in (IF "synthesizing" \in positions THEN TwinGenerations ELSE {Null}) }

\* chat(), lines 221-365, on one agent: the next step of its call r, cut
\* where the steps of the served agent are cut (one access to the history or
\* the log, or one wait for a service or a tool method). An exception
\* leaves chat() with the agent as it stands.
chat(agent, registry, r, given) ==
    LET turn == agent.turn[r]
        tool_call == turn.assistant_message.tool_calls[turn.idx]
        Logged(thoughts) == _log_thought(agent.thought_log, thoughts)
        Raises(error, cause) ==
            [turn EXCEPT !.outcome = Raised(error, cause),
                         !.pc = AfterToolError(turn.idx).pc,
                         !.idx = AfterToolError(turn.idx).idx]
    IN  CASE turn.pc = "idle" ->
               [agent EXCEPT
                  !.thought_log = Logged(<<Thought("New User Message", Null)>>),
                  !.turn[r] = [turn EXCEPT !.pc = "accepted", !.args = given.args]]
          [] turn.pc = "accepted" ->
               [agent EXCEPT
                  !.conversation_history =
                      Append(@, UserMessage(UserContent(turn.args.user_message,
                                                        turn.args.image_path))),
                  !.turn[r].pc = "user_appended"]
          [] turn.pc = "user_appended" ->
               [agent EXCEPT
                  !.thought_log = Logged(<<Thought("Calling LLM", Null)>>),
                  !.turn[r].pc = "calling"]
          [] turn.pc = "calling" ->
               [agent EXCEPT !.turn[r].pc = "deciding"]
          [] turn.pc = "deciding" ->
               IF ~given.decision.ok
               THEN [agent EXCEPT !.turn[r] =
                        [turn EXCEPT
                           !.outcome = Raised(Error("APIError", <<"decision service failed">>),
                                              "decide"),
                           !.pc = "exited"]]
               ELSE IF HasToolCalls(given.decision.reply)
               THEN [agent EXCEPT
                       !.thought_log = Logged(<<Thought("Tool Usage Decision", Null)>>),
                       !.turn[r] = [turn EXCEPT !.assistant_message = given.decision.reply,
                                                !.pc = "decided"]]
               ELSE [agent EXCEPT
                       !.thought_log = Logged(<<Thought("Direct Response", Null)>>),
                       !.turn[r] = [turn EXCEPT !.assistant_message = given.decision.reply,
                                                !.pc = "answering"]]
          [] turn.pc = "decided" ->
               [agent EXCEPT
                  !.conversation_history =
                      Append(@, AssistantToolCallsMessage(turn.assistant_message.tool_calls)),
                  !.turn[r] = [turn EXCEPT !.idx = 1, !.pc = "dispatching"]]
          [] turn.pc = "answering" ->
               [agent EXCEPT
                  !.conversation_history =
                      Append(@, AssistantMessage(turn.assistant_message.content)),
                  !.turn[r] = [turn EXCEPT
                                 !.outcome = Returned("str", turn.assistant_message.content),
                                 !.pc = "exited"]]
          [] turn.pc = "dispatching" ->
               IF LoopDone(turn.idx, turn.assistant_message.tool_calls)
               THEN [agent EXCEPT
                       !.thought_log = Logged(<<Thought("Generating Final Response", Null)>>),
                       !.turn[r].pc = "generating"]
               ELSE LET begun == BeginToolCall(registry, tool_call)
                    IN  [agent EXCEPT
                           !.thought_log = Logged(begun.logged),
                           !.turn[r] = IF begun.invoked
                                       THEN [turn EXCEPT !.pc = "in_tool"]
                                       ELSE Raises(begun.error, begun.cause)]
          [] turn.pc = "in_tool" ->
               LET ended == EndToolCallIn(agent.debug_mode, registry, tool_call,
                                          given.behaviour)
               IN  [agent EXCEPT
                      !.thought_log = Logged(ended.logged),
                      !.turn[r] = IF ended.ok
                                  THEN [turn EXCEPT !.pc = "tool_returned"]
                                  ELSE Raises(ended.error, ended.cause)]
          [] turn.pc = "tool_returned" ->
               [agent EXCEPT
                  !.conversation_history =
                      Append(@, ToolMessage(tool_call, json_dumps(tool_call.name))),
                  !.turn[r] = [turn EXCEPT !.idx = @ + 1, !.pc = "dispatching"]]
          [] turn.pc = "generating" ->
               [agent EXCEPT !.turn[r].pc = "synthesizing"]
          [] turn.pc = "synthesizing" ->
               IF given.generation = Null
               THEN [agent EXCEPT !.turn[r] =
                        [turn EXCEPT
                           !.outcome = Raised(Error("APIError", <<"generation service failed">>),
                                              "generate"),
                           !.pc = "exited"]]
               ELSE [agent EXCEPT
                       !.conversation_history = Append(@, AssistantMessage(given.generation)),
                       !.turn[r] = [turn EXCEPT
                                      !.outcome = Returned("dict", given.generation),
                                      !.pc = "exited"]]
          [] OTHER -> agent

\* reset_conversation(), lines 367-377, on one agent: the next of its three
\* statements on the agent (log, _initialize_conversation(), self.thought_log
\* = []).
TwinResetResult(agent) ==
    CASE agent.resetting = "idle" ->
           [agent EXCEPT
              !.thought_log = _log_thought(@, <<Thought("Conversation Reset", Null)>>),
              !.resetting = "logged"]
      [] agent.resetting = "logged" ->
           [agent EXCEPT
              !.conversation_history =
                  ResetResult(agent.conversation_history, agent.thought_log).conversation_history,
              !.resetting = "initialized"]
      [] OTHER ->
           [agent EXCEPT
              !.thought_log =
                  ResetResult(agent.conversation_history, agent.thought_log).thought_log,
              !.resetting = "idle"]

\* No pair of agents has been constructed yet.
NewTwins == [pc |-> "new"]

\* Two constructions ProjectKisanAgent(debug_mode=...) are about to run on
\* the same tool classes in the same environment. __init__ stores debug_mode
\* (line 44) and reads it nowhere, so both run through the same steps and
\* end alike: with an agent each, or with the same exception and no agent.
InitTwins ==
    /\ reg_classes = SourceDecorated
    /\ reg_done = 0
    /\ introspects \in [DOMAIN ToolClasses -> BOOLEAN]
    /\ constructed = "new"
    /\ tool_registry = EmptyRegistry
    /\ tool_definitions = <<>>
    /\ conversation_history = <<>>
    /\ appended_by = <<>>
    /\ overlapping \in BOOLEAN
    /\ twins = NewTwins
    /\ expansion = Null
    /\ index = {}
    /\ search = NoSearch
    /\ tool_run = NoToolRun
    /\ NoRequests

not_twin_vars ==
    <<tool_registry, tool_definitions, conversation_history, thought_log, pc,
      assistant_message, idx, outcome, http, session, appended_by, submitted,
      invoked, calls, resets, reg_classes, reg_done, introspects, constructed,
      expansion, index, search, tool_run, overlapping>>

\* The calls made on the agents: the turns by their number, and
\* reset_conversation() as call 0.
ResetCall == 0

TwinCalls == Reqs \cup {ResetCall}

\* Both constructions have returned: the two agents exist, with any
\* debug_mode each, and the thought log of the second is given earlier
\* contents. `running` is the call that took the last step, `switches` the
\* number of times a call in progress was left for another.
TwinsConstructed(debug_a, debug_b, log_b) ==
    /\ constructed = "done"
    /\ twins.pc = "new"
    /\ twins' = [pc |-> "serving", a |-> TwinAgent(debug_a, <<>>),
                 b |-> TwinAgent(debug_b, log_b), resets |-> 0, running |-> ResetCall,
                 switches |-> 0]
    /\ UNCHANGED not_twin_vars

\* A call has begun and not ended, in one of the agents.
InProgress(t) ==
    IF t \in Reqs
    THEN \/ twins.a.turn[t].pc \in InTurn
         \/ twins.b.turn[t].pc \in InTurn
    ELSE twins.a.resetting # "idle" \/ twins.b.resetting # "idle"

\* The call t may take the next step: one caller makes a call when the
\* last one has come back; with callers in threads of their own a call in
\* progress is left for another at any step, MaxSwitches times at most.
Scheduled(t) ==
    IF overlapping
    THEN \/ twins.running = t
         \/ ~InProgress(twins.running)
         \/ twins.switches < MaxSwitches
    ELSE \A q \in TwinCalls \ {t} : ~InProgress(q)

SwitchedTo(t) ==
    [twins EXCEPT !.running = t,
                  !.switches = IF twins.running # t /\ InProgress(twins.running)
                               THEN @ + 1 ELSE @]

\* Where call r of chat() stands in the two agents.
TwinPositions(r) ==
    IF twins.pc = "serving" THEN {twins.a.turn[r].pc, twins.b.turn[r].pc} ELSE {}

\* The next step of call r of chat(), in both agents, which are given the
\* same arguments and the same answers of the decision service, the tool
\* and the generation service.
TwinChat(r, given) ==
    /\ twins.pc = "serving"
    /\ twins.a.turn[r].pc # "exited" \/ twins.b.turn[r].pc # "exited"
    /\ twins.a.turn[r].pc = "idle" => \A q \in Reqs : q < r => twins.a.turn[q].pc # "idle"
    /\ Scheduled(r)
    /\ twins' = [SwitchedTo(r) EXCEPT !.a = chat(twins.a, tool_registry, r, given),
                                      !.b = chat(twins.b, tool_registry, r, given)]
    /\ UNCHANGED not_twin_vars

\* The next statement of reset_conversation(), in both agents.
TwinReset ==
    /\ twins.pc = "serving"
    /\ InProgress(ResetCall) \/ twins.resets < MaxResets
    /\ Scheduled(ResetCall)
    /\ twins' = [SwitchedTo(ResetCall) EXCEPT
                   !.a = TwinResetResult(twins.a),
                   !.b = TwinResetResult(twins.b),
                   !.resets = IF InProgress(ResetCall) THEN @ ELSE @ + 1]
    /\ UNCHANGED not_twin_vars

NextTwins ==
    \/ \E environment \in Environments : InitializeTools(environment)
    \/ RegisterToolClass
    \/ FinishConstruction
    \/ \E debug_a, debug_b \in BOOLEAN : \E log_b \in PriorLogs :
          TwinsConstructed(debug_a, debug_b, log_b)
    \/ \E r \in Reqs : \E given \in GivenAt(r, TwinPositions(r), overlapping) :
          TwinChat(r, given)
    \/ TwinReset

SpecTwins == InitTwins /\ [][NextTwins]_vars

\* ---------------------------------------------------------------- C26
\* What a caller sees of how a turn ended: the value returned or the
\* exception raised.
Observed(chat_outcome) ==
    [status |-> chat_outcome.status, shape |-> chat_outcome.shape,
     content |-> chat_outcome.content, error |-> chat_outcome.error]

\* C26: two agents that differ in debug_mode or in what their thought log
\* held before, given the same calls in the same order of steps and the
\* same answers of the decision service, the tools and the generation
\* service, have at the end of every turn the same conversation history and
\* the same outcome (the same value returned or the same exception raised).
C26_LogNeverSteers ==
    (twins.pc = "serving") =>
        \A r \in Reqs :
           (twins.a.turn[r].pc = "exited" \/ twins.b.turn[r].pc = "exited") =>
              /\ twins.a.turn[r].pc = twins.b.turn[r].pc
              /\ twins.a.conversation_history = twins.b.conversation_history
              /\ Observed(twins.a.turn[r].outcome) = Observed(twins.b.turn[r].outcome)

\* Agents that differ in debug_mode and in their thought logs have both
\* been through two turns and a reset, the first turn left waiting while the
\* second ran; in the second a tool returned a result json.dumps cannot
\* serialize.
C26_Witness ==
    /\ twins.pc = "serving"
    /\ twins.a.debug_mode # twins.b.debug_mode
    /\ twins.a.thought_log # twins.b.thought_log
    /\ twins.switches >= 1
    /\ twins.resets = 1
    /\ \A r \in Reqs : twins.a.turn[r].pc = "exited"
    /\ twins.a.turn[2].outcome.cause = "json_dumps"
    /\ twins.a.turn[1].outcome.status = "returned"
    /\ Len(twins.a.conversation_history) >= 4

====
